---- MODULE Spec2Model ----
(***************************************************************************)
(* Verificador de Fraudes: the /analyze pipeline (app.py), the brand       *)
(* guard, the heuristic engine, the external classifier adapter, score     *)
(* fusion, the TTL cache and the OCR pass loop.                            *)
(*                                                                         *)
(* Text.  A text is a set of sentences; each sentence is named by a string *)
(* and stands for one concrete Portuguese sentence:                        *)
(*   plain     "Segue a ata da reunião de ontem."                     (32) *)
(*   formal    "Atenciosamente, Equipe Financeira"                    (33) *)
(*   parabens  "Parabéns! Você ganhou um prêmio, clique aqui para          *)
(*              resgatar"                                             (58) *)
(*   sorteio   "Participe do sorteio"                                 (20) *)
(*   senha     "informe sua senha"                                    (17) *)
(*   pix       "pagamento via PIX"                                    (17) *)
(*   foto      "envie uma foto"                                       (14) *)
(*   urgente   "URGENTE"                                               (7) *)
(*   bloqueado "sua conta está bloqueado"                             (24) *)
(*   itau      "Banco Itaú informa"                                   (18) *)
(*   bradesco  "Bradesco"                                              (8) *)
(*   depois    "veja depois"                                          (11) *)
(*   relatorio "O relatório trimestral consolidado segue em anexo para     *)
(*              apreciação da diretoria executiva."                   (89) *)
(*   link      "acesse http://bit.ly/x"                               (22) *)
(*   receba    "receba agora"                                         (12) *)
(*   falha     "(Falha ao acessar a URL: tempo de conexão esgotado.)" (52) *)
(*   golpe     "URGENTE: sorteio do Itaú, participe hoje"             (40) *)
(*   curto     "Olá"                                                   (3) *)
(*   textoA    "Entrega às 10h na sala 2"                             (24) *)
(*   textoB    "Cardápio do dia: arroz e feijão"                      (31) *)
(*   textoC    "Horários de almoço"                                   (18) *)
(* A substring or regular-expression test of the source is the set of the  *)
(* sentences it matches (each computed by running the source's pattern on  *)
(* the sentence); a text matches when one of its sentences does.  Sentences *)
(* are joined by one separator character.                                  *)
(*                                                                         *)
(* Strings that are compared by str.endswith (domains, URLs, whitelist     *)
(* items) are sequences of fragments, e.g. "evilitau.com.br" is            *)
(* <<"evil","itau",".","com",".","br">>; endswith is the suffix relation.  *)
(*                                                                         *)
(* Numbers.  Scores, risks and confidences in [0,1] are integers in units  *)
(* of 1/10000; the blended risk and confidence are in units of 1/1000000;  *)
(* percentages rounded to one decimal are integers in tenths of a percent. *)
(***************************************************************************)
EXTENDS Integers, Sequences, FiniteSets, TLC

VARIABLES
  cache,      \* TTLCache._data: key -> entry, or NoEntry
  safe,       \* _safe: [domains, phrases]
  now,        \* time.time(), seconds
  cfg,        \* process configuration: OPENAI_API_KEY set, allowlist, set order
  lastOp,     \* the operation that produced the current state
  nreq,       \* number of /analyze requests served
  resp,       \* the last /analyze response with the values it was made from
  ocr,        \* ocr_from_image_file: the state of one call
  fuse,       \* one evaluation of heuristic -> classifier -> fusion
  conc        \* concurrent /analyze requests: TTLCache._lock and each thread

vars == <<cache, safe, now, cfg, lastOp, nreq, resp, ocr, fuse, conc>>

----------------------------------------------------------------------------
(* Sentences and texts *)

Sentences ==
  {"plain", "formal", "parabens", "sorteio", "senha", "pix", "foto", "urgente",
   "bloqueado", "itau", "bradesco", "depois", "relatorio", "link", "receba",
   "falha", "golpe", "curto", "textoA", "textoB", "textoC"}

SentenceLen ==
  [plain |-> 32, formal |-> 33, parabens |-> 58, sorteio |-> 20, senha |-> 17,
   pix |-> 17, foto |-> 14, urgente |-> 7, bloqueado |-> 24, itau |-> 18,
   bradesco |-> 8, depois |-> 11, relatorio |-> 89, link |-> 22, receba |-> 12,
   falha |-> 52, golpe |-> 40, curto |-> 3, textoA |-> 24, textoB |-> 31,
   textoC |-> 18]

RECURSIVE SumLen(_)
SumLen(text) ==
  IF text = {} THEN 0
  ELSE LET s == CHOOSE x \in text : TRUE IN SentenceLen[s] + SumLen(text \ {s})

\* len(content): the sentences and one separator between two of them
TextLen(text) == IF text = {} THEN 0 ELSE SumLen(text) + Cardinality(text) - 1

\* (content or "").strip() is empty
IsBlank(text) == text = {}

----------------------------------------------------------------------------
(* Strings compared by endswith *)

EndsWith(s, t) ==
  /\ Len(t) <= Len(s)
  /\ SubSeq(s, Len(s) - Len(t) + 1, Len(s)) = t

StartsWith(s, t) ==
  /\ Len(t) <= Len(s)
  /\ SubSeq(s, 1, Len(t)) = t

\* fragments that are not word characters ([\W_] of the brand patterns)
NonWord == {".", "-", "/", "@", "https://", "http://"}

NoDomain == << >>
ItauOfficial   == <<"itau", ".", "com", ".", "br">>
ItauSeguro     == <<"itau", "-", "seguro", ".", "net">>
EvilItau       == <<"evil", "itau", ".", "com", ".", "br">>
BradescoOfficial == <<"bradesco", ".", "com", ".", "br">>
Empresa        == <<"empresa", ".", "com">>
LojaXyz        == <<"loja", ".", "xyz">>
BitLy          == <<"bit", ".", "ly">>
SendGrid       == <<"sendgrid", ".", "net">>

----------------------------------------------------------------------------
(* Evidence strings.  Every red flag is a record so that flags of the two   *)
(* detectors and the formatted impersonation reasons compare by value.     *)

Flag(m) == [msg |-> m, brand |-> "", dom |-> NoDomain, offs |-> << >>]

\* the empty string / an absent entry
NoFlag == Flag("")

\* f"Impersonation de marca: '{c.upper()}' mencionado, mas remetente é
\*   '{from_reg}', fora dos domínios oficiais {official}."
ReasonFrom(c, from_reg, official) ==
  [msg |-> "Impersonation de marca: remetente fora dos domínios oficiais",
   brand |-> c, dom |-> from_reg, offs |-> official]

\* f"Impersonation de marca: reply-to '{reply_reg}' não pertence aos
\*   domínios oficiais {official}."
ReasonReply(reply_reg, official) ==
  [msg |-> "Impersonation de marca: reply-to fora dos domínios oficiais",
   brand |-> "", dom |-> reply_reg, offs |-> official]

----------------------------------------------------------------------------
(* The metadata dictionary.  A key that is absent from the dict has the     *)
(* value shown here; where the source tells an absent key from a falsy one *)
(* the field has a value of its own for "absent".                          *)

EmptyMeta ==
  [source_type |-> "",
   url |-> NoDomain,
   final_url |-> NoDomain,
   status_code |-> 0,               \* 0: absent
   url_accessible |-> "absent",     \* "absent" | "true" | "false"
   was_redirect_chain |-> FALSE,
   link_domains |-> << >>,
   from_display |-> {},             \* display name of the From header
   from_addr |-> NoDomain,          \* domain of the address in the From header
   subject |-> {},
   from_registered_domain |-> NoDomain,
   reply_to_registered_domain |-> NoDomain,
   from_domain_suspect |-> FALSE,
   ocr_text_len |-> -1,             \* -1: absent
   domain_whitelisted |-> FALSE,
   phrase_whitelisted |-> FALSE,
   brand_impersonation_detected |-> FALSE,
   brand_impersonation_reason |-> NoFlag]

----------------------------------------------------------------------------
(* brand_guard.py *)

Brands == {"itau", "bradesco"}

\* FALLBACK_ALLOWED flattened to brand -> official domains
FALLBACK_ALLOWED ==
  [itau |-> <<ItauOfficial>>, bradesco |-> <<BradescoOfficial>>]

\* an allowed_senders.json that lists no domain for one brand
CustomAllowed ==
  [itau |-> <<ItauOfficial>>, bradesco |-> << >>]

\* the sentences each brand pattern matches
BRAND_PATTERNS == [itau |-> {"itau", "golpe"}, bradesco |-> {"bradesco"}]

\* the pattern on the address of the From header: the brand as a whole word
\* of "local@domain"
AddrMatches(b, addr) ==
  \E i \in 1..Len(addr) :
    /\ addr[i] = b
    /\ (i = 1 \/ addr[i - 1] \in NonWord)
    /\ (i = Len(addr) \/ addr[i + 1] \in NonWord)

\* scan_text = " ".join([display, subject, content_text])
_candidate_brands(meta, content_text) ==
  {b \in Brands :
     \/ (meta.from_display \cup meta.subject \cup content_text)
          \cap BRAND_PATTERNS[b] # {}
     \/ AddrMatches(b, meta.from_addr)}

canonical(b) == b

brand_to_domains(allowed, b) ==
  IF b \in DOMAIN allowed THEN allowed[b] ELSE << >>

\* all(not dom.endswith(od) for od in official)
OutsideAll(dom, official) ==
  \A k \in 1..Len(official) : ~EndsWith(dom, official[k])

Verdict(det, crit, b, from_reg, official, why) ==
  [detected |-> det, critical_impersonation |-> crit, brand |-> b,
   from_domain |-> from_reg, official_domains |-> official, reason |-> why]

\* a variant of the loop that never looks at the reply-to domain
RECURSIVE DetectLoopFromOnly(_, _, _, _)
DetectLoopFromOnly(cands, allowed, from_reg, reply_reg) ==
  IF cands = << >>
    THEN Verdict(FALSE, FALSE, "", from_reg, << >>, NoFlag)
    ELSE
      LET c == Head(cands)
          official == brand_to_domains(allowed, canonical(c))
      IN IF official # << >> /\ from_reg # NoDomain /\ OutsideAll(from_reg, official)
           THEN Verdict(TRUE, TRUE, canonical(c), from_reg, official,
                        ReasonFrom(c, from_reg, official))
         ELSE DetectLoopFromOnly(Tail(cands), allowed, from_reg, reply_reg)

\* the loop over the candidates, in the iteration order of the set
RECURSIVE DetectLoop(_, _, _, _)
DetectLoop(cands, allowed, from_reg, reply_reg) ==
  IF cands = << >>
    THEN Verdict(FALSE, FALSE, "", from_reg, << >>, NoFlag)
    ELSE
      LET c == Head(cands)
          canon == canonical(c)
          official == brand_to_domains(allowed, canon)
      IN IF official # << >> /\ from_reg # NoDomain /\ OutsideAll(from_reg, official)
           THEN Verdict(TRUE, TRUE, canon, from_reg, official,
                        ReasonFrom(c, from_reg, official))
         ELSE IF official # << >> /\ reply_reg # NoDomain
                   /\ OutsideAll(reply_reg, official)
           THEN Verdict(TRUE, TRUE, canon, from_reg, official,
                        ReasonReply(reply_reg, official))
         ELSE DetectLoop(Tail(cands), allowed, from_reg, reply_reg)

\* a variant that reports a brand only together with a domain mismatch
detect_brand_mismatch_only(meta, content_text, allowed, order) ==
  LET cands == SelectSeq(order, LAMBDA b : b \in _candidate_brands(meta, content_text))
      hit == DetectLoop(cands, allowed, meta.from_registered_domain,
                        meta.reply_to_registered_domain)
  IN IF hit.critical_impersonation THEN hit
     ELSE Verdict(FALSE, FALSE, "", meta.from_registered_domain, << >>, NoFlag)

detect_brand_impersonation(meta, content_text, allowed, order) ==
  LET from_reg == meta.from_registered_domain
      reply_reg == meta.reply_to_registered_domain
      candidates == _candidate_brands(meta, content_text)
      cands == SelectSeq(order, LAMBDA b : b \in candidates)
      hit == DetectLoop(cands, allowed, from_reg, reply_reg)
  IN IF candidates = {}
       THEN Verdict(FALSE, FALSE, "", from_reg, << >>, NoFlag)
     ELSE IF hit.critical_impersonation
       THEN hit
     ELSE Verdict(TRUE, FALSE, Head(cands), from_reg,
                  brand_to_domains(allowed, Head(cands)), NoFlag)

----------------------------------------------------------------------------
(* heuristics.py *)

Opt(c, x) == IF c THEN <<x>> ELSE << >>

W(c, w) == IF c THEN w ELSE 0

Max(a, b) == IF a >= b THEN a ELSE b

Min(a, b) == IF a <= b THEN a ELSE b

Abs(a) == IF a >= 0 THEN a ELSE -a

InSeq(x, q) == \E i \in 1..Len(q) : q[i] = x

SAFE_DOMAINS == {ItauOfficial, BradescoOfficial}

TRACKING_DOMAINS_HINT == {SendGrid}

SHORTENER_DOMAINS == {BitLy}

\* sentences PRIZE_CTA_PATTERN matches
PRIZE_CTA_PATTERN == {"parabens", "sorteio", "golpe"}

\* sentences the urgency pattern of heuristic_score matches
UrgencyPattern == {"urgente", "bloqueado", "golpe"}

\* sentences the sensitive-action pattern matches (the same pattern in
\* heuristic_score and in _benign_signals)
SensitivePattern == {"parabens", "senha", "pix", "foto"}

\* sentences holding one of the formal closings of _benign_signals
FormalClosings == {"formal"}

\* sentences holding "http"
HttpSentences == {"link"}

\* the host the pattern https?://([^/]+)/? captures
RECURSIVE UpToSlash(_)
UpToSlash(q) ==
  IF q = << >> \/ Head(q) = "/" THEN << >> ELSE <<Head(q)>> \o UpToSlash(Tail(q))

HostOf(u) ==
  IF u # << >> /\ Head(u) \in {"https://", "http://"} THEN UpToSlash(Tail(u))
  ELSE << >>

UrlOf(meta) == IF meta.final_url # NoDomain THEN meta.final_url ELSE meta.url

_domain_safe(meta) ==
  LET host == HostOf(UrlOf(meta))
  IN host # << >> /\ \E d \in SAFE_DOMAINS : EndsWith(host, d)

\* str(status_code).startswith("2")
Status2xx(code) == code \in 200..299

\* _benign_signals: <<benign, notes>>
_benign_signals(text, meta) ==
  LET c1 == /\ meta.url_accessible = "true"
            /\ Status2xx(meta.status_code)
            /\ StartsWith(meta.final_url, <<"https://">>)
            /\ ~meta.was_redirect_chain
      c2 == _domain_safe(meta)
      c3 == meta.domain_whitelisted
      c4 == meta.phrase_whitelisted
      c5 == text \cap FormalClosings # {}
      c6 == text \cap SensitivePattern = {}
      c7 == TextLen(text) > 80 /\ text \cap HttpSentences = {}
  IN << W(c1, 1500) + W(c2, 2000) + W(c3, 3000) + W(c4, 2000) + W(c5, 500)
          + W(c6, 1000) + W(c7, 1000),
        Opt(c1, "link https estável (2xx).")
          \o Opt(c2, "domínio conhecido/esperado.")
          \o Opt(c3, "domínio em whitelist.")
          \o Opt(c4, "frase em whitelist.")
          \o Opt(c5, "linguagem formal / assinatura corporativa.")
          \o Opt(c6, "sem pedido de ação sensível.")
          \o Opt(c7, "sem links no corpo do texto.") >>

\* meta.get("ocr_text_len", 0)
OcrTextLen(meta) == IF meta.ocr_text_len = -1 THEN 0 ELSE meta.ocr_text_len

\* meta.get("brand_impersonation_reason", "impersonation de marca.")
ReasonOrDefault(meta) ==
  IF meta.brand_impersonation_reason = NoFlag THEN Flag("impersonation de marca.")
  ELSE meta.brand_impersonation_reason

\* the weights of the rules that matched, in rule order
RawScore(text, meta) ==
  LET r1 == text \cap UrgencyPattern # {}
      r2 == text \cap SensitivePattern # {}
      r3 == \E i \in 1..Len(meta.link_domains) : meta.link_domains[i] \in SHORTENER_DOMAINS
      r4 == meta.url_accessible = "false"
      r5 == meta.from_domain_suspect
      r6 == \E i \in 1..Len(meta.link_domains) : meta.link_domains[i] \in TRACKING_DOMAINS_HINT
      r7 == meta.source_type = "image" /\ OcrTextLen(meta) < 20
      r8 == text \cap PRIZE_CTA_PATTERN # {}
      r9 == meta.brand_impersonation_detected
      r10 == meta.source_type = "image" /\ text \cap PRIZE_CTA_PATTERN # {}
  IN << W(r1, 2200) + W(r2, 2500) + W(r3, 1800) + W(r4, 1200) + W(r5, 1500)
          + W(r6, 600) + W(r7, 500) + W(r8, 2200) + W(r9, 3000) + W(r10, 1800),
        Opt(r1, Flag("tom de urgência/ameaça."))
          \o Opt(r2, Flag("pedido de ação sensível/contato externo."))
          \o Opt(r3, Flag("uso de encurtador de link."))
          \o Opt(r4, Flag("link inacessível."))
          \o Opt(r5, Flag("remetente/domínio com TLD incomum."))
          \o Opt(r6, Flag("links de tracking/ESP."))
          \o Opt(r7, Flag("pouco texto reconhecido (OCR)."))
          \o Opt(r8, Flag("gatilhos de prêmio/sorteio/CTA."))
          \o Opt(r9, ReasonOrDefault(meta))
          \o Opt(r10, Flag("imagem promocional suspeita (phishing visual).")) >>

heuristic_score(text, meta) ==
  LET raw == RawScore(text, meta)
      ben == _benign_signals(text, meta)
  IN [score |-> Min(10000, Max(0, raw[1] - ben[1])),
      red_flags |-> raw[2],
      benign_notes |-> ben[2]]

----------------------------------------------------------------------------
(* llm_client.py *)

\* a numeric field of the classifier's JSON: a number, absent, or a value
\* float() rejects
Num(x) == [t |-> "num", v |-> x]

AbsentNum == [t |-> "absent", v |-> 0]

BadNum == [t |-> "bad", v |-> 0]

\* the JSON literal NaN, which json.loads accepts
NanNum == [t |-> "nan", v |-> 0]

\* sentences the pattern of the dampening rule matches
DampenerPattern == {"senha", "pix"}

\* str.lower() on the labels the classifier may send
Lower(l) == IF l = "FRAUDE" THEN "fraude" ELSE l

Clamp01(x) == Max(0, Min(10000, x))

\* max(0.0, min(1.0, float(x))): min(1.0, nan) is 1.0
ClampNum(n) == IF n.t = "nan" THEN 10000 ELSE Clamp01(n.v)

https_2xx_no_chain(meta) ==
  /\ meta.url_accessible = "true"
  /\ Status2xx(meta.status_code)
  /\ ~meta.was_redirect_chain

\* the fixed verdict llm_analyze starts from and returns without a key
DefaultVerdict(note) ==
  [raised |-> FALSE, label |-> "ok", risk_score_llm |-> 2000,
   confidence_llm |-> 4000, red_flags |-> << >>, explanation |-> note,
   actions |-> << >>]

\* the exception of client.chat.completions.create leaving llm_analyze
Raised ==
  [raised |-> TRUE, label |-> "", risk_score_llm |-> 0, confidence_llm |-> 0,
   red_flags |-> << >>, explanation |-> "", actions |-> << >>]

\* ext: the outcome of the external call.  kind is "error" (timeout or
\* transport error), "json" (the body is the JSON record), "wrapped" (the
\* record with text around it), "badbraces" (braces around something that is
\* not JSON) or "garbage" (no braces at all)
llm_analyze(content, meta, has_key, ext) ==
  IF ~has_key THEN DefaultVerdict("LLM desativado (sem OPENAI_API_KEY).")
  ELSE IF ext.kind = "error" THEN Raised
  ELSE
    LET parsed == ext.kind \in {"json", "wrapped"}
        lab0 == IF parsed /\ ext.label # "" THEN Lower(ext.label) ELSE "ok"
        lab1 == IF lab0 \in {"ok", "suspeito", "fraude"} THEN lab0 ELSE "ok"
        r0 == IF parsed /\ ext.risk.t # "absent" THEN ext.risk ELSE Num(2000)
        c0 == IF parsed /\ ext.conf.t # "absent" THEN ext.conf ELSE Num(4000)
        numeric == r0.t # "bad" /\ c0.t # "bad"
        r1 == IF numeric THEN ClampNum(r0) ELSE 2000
        c1 == IF numeric THEN ClampNum(c0) ELSE 4000
        note == IF parsed THEN ext.explanation
                ELSE IF ext.kind = "badbraces"
                  THEN "Resposta do LLM não estava em JSON; assumindo OK."
                ELSE ""
        damp == /\ meta.domain_whitelisted
                /\ https_2xx_no_chain(meta)
                /\ content \cap DampenerPattern = {}
        r2 == IF damp THEN Clamp01((r1 * 7) \div 10) ELSE r1
        lab2 == IF damp /\ r2 < 4000 /\ lab1 # "fraude" THEN "ok" ELSE lab1
    IN [raised |-> FALSE, label |-> lab2, risk_score_llm |-> r2,
        confidence_llm |-> c1,
        red_flags |-> IF parsed THEN ext.red_flags ELSE << >>,
        explanation |-> note,
        actions |-> IF parsed THEN ext.actions ELSE << >>]

----------------------------------------------------------------------------
(* scoring.py *)

\* sentences holding one of HIGH_SEVERITY_TOKENS
HIGH_SEVERITY_TOKENS ==
  {"parabens", "sorteio", "pix", "bloqueado", "receba", "golpe"}

_has_any(text, tokens) == text \cap tokens # {}

FraudActions ==
  <<"Não clique em links nem abra anexos.", "Não responda ao remetente.",
    "Reporte ao time de segurança/abuse do provedor.",
    "Se forneceu dados, troque senhas e monitore contas.">>

SuspectActions ==
  <<"Desconfie: valide no site/app oficial.",
    "Evite clicar até confirmar a legitimidade.",
    "Cheque remetente/domínio e ortografia.">>

\* a variant of the thresholds without the high-severity floor
LabelByRisk(base_risk, has_high_sev) ==
  IF base_risk >= 600000 THEN "fraude"
  ELSE IF base_risk >= 350000 THEN "suspeito"
  ELSE "ok"

\* a variant of the thresholds that looks at the high-severity tokens first
LabelTokenFirst(base_risk, has_high_sev) ==
  IF has_high_sev THEN "suspeito"
  ELSE IF base_risk >= 600000 THEN "fraude"
  ELSE IF base_risk >= 350000 THEN "suspeito"
  ELSE "ok"

\* the label thresholds on the clamped risk (units of 1/1000000)
LabelOf(base_risk, has_high_sev) ==
  IF base_risk >= 600000 THEN "fraude"
  ELSE IF base_risk >= 350000 \/ has_high_sev THEN "suspeito"
  ELSE "ok"

\* a variant of combine_scores without the two caps
combine_scores_uncapped(heur, llm, meta, raw_text) ==
  LET has_high_sev == _has_any(raw_text, HIGH_SEVERITY_TOKENS)
      blend == 55 * heur.score + 45 * llm.risk_score_llm
                 + W(has_high_sev, 80000)
                 + W(meta.brand_impersonation_detected, 60000)
      label == LabelOf(blend, has_high_sev)
  IN [risk |-> blend,
      confidence |-> 60 * llm.confidence_llm
                       + 40 * (10000 - Abs(heur.score - llm.risk_score_llm)),
      label |-> label,
      actions |-> IF label = "fraude" THEN FraudActions
                  ELSE IF label = "suspeito" THEN SuspectActions
                  ELSE << >>]

combine_scores(heur, llm, meta, raw_text) ==
  LET h_score == heur.score
      l_risk == llm.risk_score_llm
      l_conf == llm.confidence_llm
      has_high_sev == _has_any(raw_text, HIGH_SEVERITY_TOKENS)
      blend == 55 * h_score + 45 * l_risk
                 + W(has_high_sev, 80000)
                 + W(meta.brand_impersonation_detected, 60000)
      base_risk == Max(0, Min(1000000, blend))
      confidence == 60 * l_conf + 40 * (10000 - Abs(h_score - l_risk))
      label == LabelOf(base_risk, has_high_sev)
  IN [risk |-> base_risk,
      confidence |-> Max(0, Min(1000000, confidence)),
      label |-> label,
      actions |-> IF label = "fraude" THEN FraudActions
                  ELSE IF label = "suspeito" THEN SuspectActions
                  ELSE << >>]

\* round(x * 100, 1), in tenths of a percent, for x in units of 1/1000000
RoundPct(x) ==
  LET q == x \div 1000
      r == x % 1000
  IN IF r > 500 \/ (r = 500 /\ q % 2 = 1) THEN q + 1 ELSE q

----------------------------------------------------------------------------
(* app.py: the whitelist, the image triggers and the decision of analyze() *)

\* sentences holding one of _PRIZE_CTA_ANY
_PRIZE_CTA_ANY == {"parabens", "sorteio", "receba", "golpe"}

\* sentences holding one of _BRAND_WORDS (substring test: "oi" in "depois")
_BRAND_WORDS == {"itau", "bradesco", "depois", "golpe"}

_has_prize_cta(text) == text \cap _PRIZE_CTA_ANY # {}

_has_brand_words(text) == text \cap _BRAND_WORDS # {}

\* the sentences a whitelisted phrase occurs in
PhraseSentences == [reuniao |-> {"plain"}, premio |-> {"parabens"}]

\* for d in _safe["domains"]: if d and domain_source.endswith(d.lower())
DomainWhitelisted(meta, sf) ==
  \E i \in 1..Len(sf.domains) :
    sf.domains[i] # << >> /\ EndsWith(UrlOf(meta), sf.domains[i])

\* for p in _safe["phrases"]: if p and p.lower() in text_lower
PhraseWhitelisted(content, sf) ==
  \E i \in 1..Len(sf.phrases) : content \cap PhraseSentences[sf.phrases[i]] # {}

\* a variant that keeps every occurrence
DedupNone(q, seen) == q

RECURSIVE Dedup(_, _)
Dedup(q, seen) ==
  IF q = << >> THEN << >>
  ELSE IF Head(q) \in seen THEN Dedup(Tail(q), seen)
  ELSE <<Head(q)>> \o Dedup(Tail(q), seen \cup {Head(q)})

Take(q, n) == SubSeq(q, 1, Min(n, Len(q)))

NoVerdict == Verdict(FALSE, FALSE, "", NoDomain, << >>, NoFlag)

NoHeur == [score |-> 0, red_flags |-> << >>, benign_notes |-> << >>]

NoLlm == DefaultVerdict("")

CriticalActions ==
  <<"Não clique em nenhum link.", "Não responda ao e-mail.",
    "Reporte ao time de segurança/abuse do provedor.",
    "Se informou dados, altere senhas e contate o suporte oficial.">>

ImageRuleActions ==
  <<"Não acesse links ou QR codes desse material.",
    "Verifique campanhas no site/app oficial da marca.",
    "Reporte este conteúdo ao time de segurança.">>

OcrEmptyActions ==
  <<"Reenvie uma imagem mais nítida.", "Verifique o idioma do Tesseract (por).">>

\* what render_template is given
Response(path, err, label, risk_pct, conf_pct, red_flags, actions, notes, expl) ==
  [path |-> path, error |-> err, label |-> label, risk_pct |-> risk_pct,
   conf_pct |-> conf_pct, red_flags |-> red_flags, actions |-> actions,
   benign_notes |-> notes, explanation |-> expl]

ErrorResponse(path, err) ==
  Response(path, err, "", 0, 0, << >>, << >>, << >>, "")

\* the image branch's result for an image without recognisable text
OcrEmptyResponse ==
  Response("ocr_empty", "OCR executou, mas não encontrou texto na imagem.",
           "suspeito", 350, 400,
           <<Flag("Imagem sem texto reconhecível pelo OCR.")>>,
           OcrEmptyActions, << >>, "")

\* what analyze() computed for a request: the response (r), the request's
\* meta as the handler leaves it, the values the response was computed from,
\* and where the classifier verdict came from ("none", "cache" or "call")
Outcome(r, meta, imp, heur, llm, final, llm_from) ==
  [r |-> r, meta |-> meta, imp |-> imp, heur |-> heur, llm |-> llm,
   final |-> final, llm_from |-> llm_from]

\* "if not content.strip()"
NoContent(meta0) ==
  Outcome(ErrorResponse("no_content",
            "Não foi possível extrair conteúdo para análise."),
          meta0, NoVerdict, NoHeur, NoLlm, 0, "none")

\* the whitelist flags written into meta
WhitelistFlags(meta0, content, sf) ==
  [meta0 EXCEPT
     !.domain_whitelisted = @ \/ DomainWhitelisted(meta0, sf),
     !.phrase_whitelisted = @ \/ PhraseWhitelisted(content, sf)]

\* meta["brand_impersonation_detected"], meta["brand_impersonation_reason"]
BrandFields(meta1, imp) ==
  [meta1 EXCEPT
     !.brand_impersonation_detected = imp.detected,
     !.brand_impersonation_reason = IF imp.reason # NoFlag THEN imp.reason ELSE @]

\* "if imp.get('critical_impersonation')"
CriticalOverride(meta2, imp) ==
  Outcome(Response("critical", "", "fraude", 950, 900,
            <<IF imp.reason # NoFlag THEN imp.reason
              ELSE Flag("Impersonation de marca detectado.")>>,
            CriticalActions, << >>,
            "Fraude confirmada por impersonation de marca (regra crítica)."),
          meta2, imp, NoHeur, NoLlm, 0, "none")

\* a variant of the forced rule that is not restricted to images
ImageRuleAnySource(source_type, content, meta2) ==
  /\ _has_prize_cta(content)
  /\ (_has_brand_words(content) \/ meta2.brand_impersonation_detected)

\* the condition of the forced rule for images
ImageRule(source_type, content, meta2) ==
  /\ source_type = "image"
  /\ _has_prize_cta(content)
  /\ (_has_brand_words(content) \/ meta2.brand_impersonation_detected)

ImageOverride(meta2, imp) ==
  Outcome(Response("image_rule", "", "fraude", 920, 820,
            <<IF meta2.brand_impersonation_reason # NoFlag
                THEN meta2.brand_impersonation_reason
                ELSE Flag("Marca mencionada na arte."),
              Flag("Imagem contém gatilhos de prêmio/sorteio/CTA."),
              Flag("Phishing visual sem comprovação de domínio oficial.")>>,
            ImageRuleActions, << >>,
            "Fraude por phishing visual (marca + prêmio/sorteio/CTA detectados)."),
          meta2, imp, NoHeur, NoLlm, 0, "none")

\* the response rendered from the fused result
Blended(meta2, imp, heur, llm, final, llm_from) ==
  Outcome(Response("blend", "", final.label, RoundPct(final.risk),
            RoundPct(final.confidence),
            Take(Dedup(llm.red_flags \o heur.red_flags, {}), 12),
            Take(IF final.actions # << >> THEN final.actions ELSE llm.actions, 10),
            heur.benign_notes, llm.explanation),
          meta2, imp, heur, llm, final.risk, llm_from)

\* the normal path once both scores are known; an exception raised by
\* llm_analyze reaches the handler's "except Exception"
Blend(content, meta2, imp, heur, llm, llm_from) ==
  IF llm.raised
    THEN Outcome(ErrorResponse("exception", "Falha na análise"),
                 meta2, imp, heur, llm, 0, "call")
    ELSE Blended(meta2, imp, heur, llm,
                 combine_scores(heur, llm, meta2, content), llm_from)

\* a variant of the handler in which the critical verdict overrides nothing
DecidedWithoutOverride(source_type, content, meta2, imp, cf, have_llm, llm_cached, ext) ==
  IF ImageRule(source_type, content, meta2) THEN ImageOverride(meta2, imp)
  ELSE Blend(content, meta2, imp, heuristic_score(content, meta2),
             IF have_llm THEN llm_cached
             ELSE llm_analyze(content, meta2, cf.has_key, ext),
             IF have_llm THEN "cache" ELSE "call")

\* analyze() from the brand verdict on
Decided(source_type, content, meta2, imp, cf, have_llm, llm_cached, ext) ==
  IF imp.critical_impersonation THEN CriticalOverride(meta2, imp)
  ELSE IF ImageRule(source_type, content, meta2) THEN ImageOverride(meta2, imp)
  ELSE Blend(content, meta2, imp, heuristic_score(content, meta2),
             IF have_llm THEN llm_cached
             ELSE llm_analyze(content, meta2, cf.has_key, ext),
             IF have_llm THEN "cache" ELSE "call")

Detected(source_type, content, meta1, imp, cf, have_llm, llm_cached, ext) ==
  Decided(source_type, content, BrandFields(meta1, imp), imp, cf,
          have_llm, llm_cached, ext)

Flagged(source_type, content, meta1, cf, have_llm, llm_cached, ext) ==
  Detected(source_type, content, meta1,
           detect_brand_impersonation(meta1, content, cf.allowed, cf.order),
           cf, have_llm, llm_cached, ext)

\* analyze() from "if not content.strip()" on.  sf: the whitelist; cf: the
\* process configuration; llm_cached: the value of the llm: entry when
\* have_llm; ext: the outcome of the external call if one is made.
Decide(source_type, content, meta0, sf, cf, have_llm, llm_cached, ext) ==
  IF IsBlank(content) THEN NoContent(meta0)
  ELSE Flagged(source_type, content, WhitelistFlags(meta0, content, sf), cf,
               have_llm, llm_cached, ext)

----------------------------------------------------------------------------
(* app.py: TTLCache.  cache has one map per key prefix (url:, img:, eml:,   *)
(* llm:); the SHA-256 of a key's content is the content itself.            *)

TTL_URL == 21600

TTL_FILE == 86400

TTL_LLM == 43200

\* a variant of the lookup for which an entry ends at its expiry time
LiveBeforeExpiry(m, k, t) == k \in DOMAIN m /\ ~(m[k].exp <= t)

\* TTLCache.get: is there an entry that has not expired?
Live(m, k, t) == k \in DOMAIN m /\ ~(m[k].exp < t)

\* TTLCache.get: the map after the lookup (an expired entry is popped)
AfterGet(m, k, t) ==
  IF k \in DOMAIN m /\ m[k].exp < t
    THEN [x \in DOMAIN m \ {k} |-> m[x]]
    ELSE m

\* TTLCache.setex
setex(m, k, ttl, v, t) ==
  [x \in DOMAIN m \cup {k} |-> IF x = k THEN [exp |-> t + ttl, value |-> v] ELSE m[x]]

EmptyMap == [x \in {} |-> 0]

----------------------------------------------------------------------------
(* The inputs of the requests and the answers of the collaborators *)

\* how many /analyze requests a run of Spec makes
MaxReq == 2

SiteDomain == <<"site", ".", "com">>

SiteUrl == <<"https://", "site", ".", "com">>

TextInputs == {{"parabens"}}

Urls == {SiteUrl}

Images == {"img1"}

Emls == {"eml1", "eml2"}

BradescoFirst == <<"bradesco", "itau">>

ItauFirst == <<"itau", "bradesco">>

\* OPENAI_API_KEY set or not, the allowlist load_allowed_senders returns, and
\* the iteration order of the set of candidate brands in this process
Config(k, a, o) == [has_key |-> k, allowed |-> a, order |-> o]

\* the processes of Spec: the built-in allowlist, with and without a key
Configs == {Config(k, FALLBACK_ALLOWED, ItauFirst) : k \in BOOLEAN}

\* safebook.json as load_safebook() finds it at start
InitialSafebooks ==
  {[domains |-> << >>, phrases |-> << >>, locked |-> FALSE]}

Ext(kind, label, risk, conf, flags, acts, expl) ==
  [kind |-> kind, label |-> label, risk |-> risk, conf |-> conf,
   red_flags |-> flags, actions |-> acts, explanation |-> expl]

NoExt == Ext("none", "", AbsentNum, AbsentNum, << >>, << >>, "")

ExtError == Ext("error", "", AbsentNum, AbsentNum, << >>, << >>, "")

ExtGarbage == Ext("garbage", "", AbsentNum, AbsentNum, << >>, << >>, "")

ExtHigh ==
  Ext("json", "fraude", Num(10000), Num(9000),
      <<Flag("pedido de ação sensível/contato externo."), Flag("domínio não oficial")>>,
      <<"Bloqueie o remetente.">>, "Vários sinais de fraude.")

ExtLow ==
  Ext("json", "ok", Num(1000), Num(8000), << >>, << >>, "Sem sinais de risco.")

\* the answers of the external classifier the requests of Spec may get
ExtOutcomes == {ExtError, ExtHigh, ExtLow}

\* ext.suffix of tldextract for the domains used here
Suffix(dom) ==
  IF EndsWith(dom, <<"com", ".", "br">>) THEN "com.br" ELSE dom[Len(dom)]

\* extract_text_from_eml on each of the e-mail files: <<content, meta>>
EmlFile(from_reg, reply_reg, subject, body) ==
  << body,
     [EmptyMeta EXCEPT
        !.from_addr = from_reg,
        !.subject = subject,
        !.from_registered_domain = from_reg,
        !.from_domain_suspect =
           /\ from_reg # NoDomain
           /\ Suffix(from_reg) \notin {"br", "com", "net", "gov", "org", "edu"},
        !.reply_to_registered_domain = reply_reg] >>

extract_text_from_eml(id) ==
  CASE id = "eml1" -> EmlFile(ItauSeguro, NoDomain, {"itau"}, {"plain"})
    [] id = "eml2" -> EmlFile(Empresa, NoDomain, {}, {"relatorio"})

\* extract_text_from_url: what the fetch may give for a URL.  ok FALSE is a
\* requests.RequestException.
Fetched(status, final, chain, text, links) ==
  [ok |-> TRUE, status |-> status, final |-> final, chain |-> chain,
   text |-> text, links |-> links]

FetchFailed ==
  [ok |-> FALSE, status |-> 0, final |-> NoDomain, chain |-> FALSE,
   text |-> {"falha"}, links |-> << >>]

FetchOutcomes(u) ==
  { Fetched(200, u, FALSE, {"plain"}, << >>),
    FetchFailed }

extract_text_from_url(u, f) ==
  IF f.ok
    THEN << f.text,
            [EmptyMeta EXCEPT
               !.url = u, !.status_code = f.status, !.final_url = f.final,
               !.url_accessible = IF Status2xx(f.status) THEN "true" ELSE "false",
               !.was_redirect_chain = f.chain, !.link_domains = f.links] >>
    ELSE << f.text, [EmptyMeta EXCEPT !.url = u, !.url_accessible = "false"] >>

\* what ocr_from_image_file may return for an image, or that it raised
OcrOutcomes ==
  { [raised |-> TRUE, text |-> {}],
    [raised |-> FALSE, text |-> {}],
    [raised |-> FALSE, text |-> {"sorteio", "itau"}] }

----------------------------------------------------------------------------
(* The requests: POST /analyze and POST /whitelist, each handler one action *)

Request(kind, text, url, file) ==
  [kind |-> kind, text |-> text, url |-> url, file |-> file]

\* the response of a request together with the values it was computed from
Served(req, source_type, content, file_from, ext, d) ==
  [req |-> req, source_type |-> source_type, content |-> content,
   file_from |-> file_from,
   ext |-> IF d.llm_from = "call" THEN ext ELSE NoExt, r |-> d.r, meta |-> d.meta, imp |-> d.imp,
   heur |-> d.heur, llm |-> d.llm, final |-> d.final, llm_from |-> d.llm_from]

\* a response made before "if not content.strip()"
Early(r, meta) == Outcome(r, meta, NoVerdict, NoHeur, NoLlm, 0, "none")

NoResponse ==
  Served(Request("none", {}, NoDomain, ""), "", {}, "none", NoExt,
         Early(ErrorResponse("none", ""), EmptyMeta))

\* a variant of the handler's cache writes that stores a verdict under the
\* llm: key on every path
CacheAfterAlways(source_type, content, c1, alias, akey, d) ==
  [url |-> IF alias = "url"
             THEN setex(c1.url, akey, TTL_URL,
                        [content |-> content, meta |-> d.meta], now)
             ELSE c1.url,
   img |-> c1.img,
   eml |-> IF alias = "eml"
             THEN setex(c1.eml, akey, TTL_FILE,
                        [content |-> content, meta |-> d.meta], now)
             ELSE c1.eml,
   llm |-> setex(c1.llm, <<source_type, content>>, TTL_LLM, d.llm, now)]

\* the cache after the handler: the llm: lookup pops an expired entry, a
\* verdict obtained by a call is stored, and the url:/eml: entry (alias names
\* the map, akey the key) holds the request's own meta dict and so whatever the
\* handler wrote into it afterwards
CacheAfter(source_type, content, c1, alias, akey, d) ==
  [url |-> IF alias = "url"
             THEN setex(c1.url, akey, TTL_URL,
                        [content |-> content, meta |-> d.meta], now)
             ELSE c1.url,
   img |-> c1.img,
   eml |-> IF alias = "eml"
             THEN setex(c1.eml, akey, TTL_FILE,
                        [content |-> content, meta |-> d.meta], now)
             ELSE c1.eml,
   llm |-> IF d.llm_from = "none" THEN c1.llm
           ELSE IF d.llm_from = "call" /\ ~d.llm.raised
             THEN setex(AfterGet(c1.llm, <<source_type, content>>, now),
                        <<source_type, content>>, TTL_LLM, d.llm, now)
           ELSE AfterGet(c1.llm, <<source_type, content>>, now)]

Respond(req, source_type, content, c1, alias, akey, file_from, ext, d) ==
  /\ cache' = CacheAfter(source_type, content, c1, alias, akey, d)
  /\ resp' = Served(req, source_type, content, file_from, ext, d)

\* analyze() once the content and meta of the request are known: an image
\* without recognisable text is answered in the image branch
Handle(source_type, content, meta0, sf, cf, have_llm, llm_cached, ext) ==
  IF source_type = "image" /\ IsBlank(content)
    THEN Early(OcrEmptyResponse, meta0)
    ELSE Decide(source_type, content, meta0, sf, cf, have_llm, llm_cached, ext)

\* the value of a live llm: entry
CachedLlm(m, k, t) == IF Live(m, k, t) THEN m[k].value ELSE NoLlm

\* analyze() from "if not content.strip()" to the response.  The external
\* classifier answers only when there is a key and no live llm: entry.
Serve(req, source_type, content, meta0, c1, alias, akey, file_from) ==
  \E ext \in IF cfg.has_key /\ ~Live(c1.llm, <<source_type, content>>, now)
               THEN ExtOutcomes ELSE {NoExt} :
    Respond(req, source_type, content, c1, alias, akey, file_from, ext,
            Handle(source_type, content, meta0, safe, cfg,
                   Live(c1.llm, <<source_type, content>>, now),
                   CachedLlm(c1.llm, <<source_type, content>>, now), ext))

Counted ==
  /\ nreq < MaxReq
  /\ nreq' = nreq + 1
  /\ lastOp' = "analyze"
  /\ UNCHANGED <<safe, now, cfg, ocr, fuse, conc>>

AnalyzeText ==
  \E t \in TextInputs :
    /\ Serve(Request("text", t, NoDomain, ""), "text", t,
             [EmptyMeta EXCEPT !.source_type = "text"], cache, "none", NoDomain, "none")
    /\ Counted

AnalyzeUrl ==
  \E u \in Urls :
    LET req == Request("url", {}, u, "")
        c1 == [cache EXCEPT !.url = AfterGet(@, u, now)]
    IN /\ IF Live(cache.url, u, now)
            THEN Serve(req, "url", cache.url[u].value.content,
                       cache.url[u].value.meta, c1, "none", u, "cache")
            ELSE \E f \in FetchOutcomes(u) :
                   LET x == extract_text_from_url(u, f)
                   IN Serve(req, "url", x[1], [x[2] EXCEPT !.source_type = "url"],
                            c1, "url", u, "fresh")
       /\ Counted

\* the image branch after content is known
ServeImage(req, content, c1, file_from) ==
  Serve(req, "image", content,
        [EmptyMeta EXCEPT !.source_type = "image", !.ocr_text_len = TextLen(content)],
        c1, "none", NoDomain, file_from)

AnalyzeImage ==
  \E i \in Images :
    LET req == Request("image", {}, NoDomain, i)
        c1 == [cache EXCEPT !.img = AfterGet(@, i, now)]
    IN /\ IF Live(cache.img, i, now)
            THEN ServeImage(req, cache.img[i].value.content, c1, "cache")
            ELSE \E o \in OcrOutcomes :
                   IF o.raised
                     THEN /\ cache' = c1
                          /\ resp' = Served(req, "image", {}, "fresh", NoExt,
                                       Early(ErrorResponse("exception", "Falha na análise"),
                                             [EmptyMeta EXCEPT !.source_type = "image"]))
                     ELSE ServeImage(req, o.text,
                            [c1 EXCEPT !.img = setex(@, i, TTL_FILE,
                                         [content |-> o.text, meta |-> EmptyMeta], now)],
                            "fresh")
       /\ Counted

AnalyzeEml ==
  \E e \in Emls :
    LET req == Request("eml", {}, NoDomain, e)
        c1 == [cache EXCEPT !.eml = AfterGet(@, e, now)]
        x == extract_text_from_eml(e)
    IN /\ IF Live(cache.eml, e, now)
            THEN Serve(req, "email", cache.eml[e].value.content,
                       cache.eml[e].value.meta, c1, "none", e, "cache")
            ELSE Serve(req, "email", x[1], [x[2] EXCEPT !.source_type = "email"],
                       c1, "eml", e, "fresh")
       /\ Counted

\* no text, no URL and no file, or a file whose type is not allowed
AnalyzeNothing ==
  /\ \E k \in {"empty", "disallowed"} :
       resp' = Served(Request(k, {}, NoDomain, ""), "", {}, "none", NoExt,
                      Early(ErrorResponse("input_error",
                              IF k = "empty"
                                THEN "Informe um texto, URL, imagem ou arquivo .eml."
                                ELSE "Tipo de arquivo não permitido."),
                            EmptyMeta))
  /\ cache' = cache
  /\ Counted

WhitelistDomains == {SiteDomain}

WhitelistPhrases == {"reuniao"}

\* POST /whitelist with a new item: the item is appended, then save_safebook()
\* waits for _safe_lock, which the handler itself holds
WhitelistAdd ==
  /\ ~safe.locked
  /\ \/ \E d \in WhitelistDomains :
          /\ ~InSeq(d, safe.domains)
          /\ safe' = [safe EXCEPT !.domains = Append(@, d), !.locked = TRUE]
     \/ \E p \in WhitelistPhrases :
          /\ ~InSeq(p, safe.phrases)
          /\ safe' = [safe EXCEPT !.phrases = Append(@, p), !.locked = TRUE]
  /\ lastOp' = "whitelist"
  /\ UNCHANGED <<cache, now, cfg, nreq, resp, ocr, fuse, conc>>

\* the time between two requests: up to the expiry of a url: entry, past that
\* of an llm: entry, past that of a file entry
Delays == {TTL_URL, TTL_LLM + 1, TTL_FILE + 1}

\* time passes after a response and before the next request
Tick ==
  /\ lastOp = "analyze"
  /\ nreq < MaxReq
  /\ \E dt \in Delays : now' = now + dt
  /\ lastOp' = "tick"
  /\ UNCHANGED <<cache, safe, cfg, nreq, resp, ocr, fuse, conc>>

OcrIdle == [pc |-> "idle"]

FuseIdle == [pc |-> "idle"]

ConcIdle == [pc |-> "idle"]

Init ==
  /\ cache = [url |-> EmptyMap, img |-> EmptyMap, eml |-> EmptyMap, llm |-> EmptyMap]
  /\ safe \in InitialSafebooks
  /\ now = 0
  /\ cfg \in Configs
  /\ lastOp = "init"
  /\ nreq = 0
  /\ resp = NoResponse
  /\ ocr = OcrIdle
  /\ fuse = FuseIdle
  /\ conc = ConcIdle

Next ==
  \/ AnalyzeText
  \/ AnalyzeUrl
  \/ AnalyzeImage
  \/ AnalyzeEml
  \/ AnalyzeNothing
  \/ WhitelistAdd
  \/ Tick

Spec == Init /\ [][Next]_vars

----------------------------------------------------------------------------
(* The handler as a function of one request (specification SpecFuse): the  *)
(* content and meta the extraction gave, the whitelist, the configuration  *)
(* and the classifier's answer are drawn at the start, the cache is empty, *)
(* and Evaluate applies analyze() to them.                                 *)

\* the largest number of sentences of a text of SpecFuse
MaxSentences == 2

TextsOf(S) == {t \in SUBSET S : Cardinality(t) <= MaxSentences}

ScoreSentences ==
  {"plain", "formal", "parabens", "senha", "pix", "urgente", "relatorio", "link",
   "golpe", "itau"}

BrandSentences == {"plain", "itau", "bradesco", "sorteio", "depois"}

\* an answer whose numbers are outside [0, 1]
ExtOutOfRange ==
  Ext("json", "suspeito", Num(50000), Num(-3000), << >>, << >>, "fora da faixa")

\* a well-formed answer of low risk that lists twelve red flags and eleven
\* actions
ExtVerbose ==
  Ext("json", "ok", Num(1000), Num(8000),
      [i \in 1..12 |-> Flag(<<"tom de urgência/ameaça.", "sinal b", "sinal c", "sinal d", "sinal e",
                              "sinal f", "sinal g", "sinal h", "sinal i", "sinal j",
                              "sinal k", "sinal l">>[i])],
      <<"passo a", "passo b", "passo c", "passo d", "passo e", "passo f",
        "passo g", "passo h", "passo i", "passo j", "passo k">>,
      "Muitos sinais fracos.")

\* the answers of the external classifier in SpecFuse: a failed call, text
\* without braces, braces around something that is not JSON, well-formed
\* records, a long record, numbers outside [0, 1], a number float() rejects, NaN, and a record
\* inside prose with an upper-case label and no numbers
FuseExts ==
  {ExtError, ExtGarbage, ExtHigh, ExtLow, ExtOutOfRange, ExtVerbose,
   Ext("badbraces", "", AbsentNum, AbsentNum, << >>, << >>, ""),
   Ext("json", "fraude", BadNum, Num(9000), << >>, << >>, ""),
   Ext("json", "ok", NanNum, NanNum, << >>, << >>, ""),
   Ext("wrapped", "FRAUDE", AbsentNum, AbsentNum,
       <<Flag("domínio não oficial")>>, << >>, "")}

Safebook(domains, phrases) ==
  [domains |-> domains, phrases |-> phrases, locked |-> FALSE]

\* safebook.json as load_safebook() may find it
FuseSafebooks ==
  {Safebook(<< >>, << >>), Safebook(<<SiteDomain>>, << >>),
   Safebook(<< >>, <<"reuniao">>)}

Extracted(source_type, x) ==
  [source_type |-> source_type, content |-> x[1],
   meta0 |-> [x[2] EXCEPT !.source_type = source_type]]

\* what the text, image, URL and e-mail branches of analyze() hand on
FromText(t) == Extracted("text", <<t, EmptyMeta>>)

FromImage(t) ==
  Extracted("image", <<t, [EmptyMeta EXCEPT !.ocr_text_len = TextLen(t)]>>)

FromUrl(u, f) == Extracted("url", extract_text_from_url(u, f))

FromEml(from_reg, reply_reg, subject, body) ==
  Extracted("email", EmlFile(from_reg, reply_reg, subject, body))

\* URLs of the whitelisted site with a path or a bare "/", and of a host
\* whose name ends with the name of the site
SiteSlash == SiteUrl \o <<"/">>

SitePage == SiteUrl \o <<"/", "login">>

LookalikeUrl == <<"https://", "evil", "site", ".", "com">>

\* requests that exercise the whitelist of domains
WhitelistRequests ==
  {FromUrl(SiteUrl, Fetched(200, f, FALSE, {"plain"}, << >>)) :
     f \in {SiteSlash, SitePage, LookalikeUrl}}
    \cup {FromUrl(u, FetchFailed) : u \in {SitePage, LookalikeUrl}}

\* requests that exercise the scores
ScoreRequests ==
  LET texts == TextsOf(ScoreSentences)
  IN {FromText(t) : t \in texts}
       \cup {FromImage(t) : t \in texts}
       \cup {FromUrl(SiteUrl, Fetched(st, SiteUrl, ch, t, ln)) :
               st \in {200, 404}, ch \in BOOLEAN, t \in texts,
               ln \in {<< >>, <<BitLy, SendGrid>>}}
       \cup {FromUrl(SiteUrl, FetchFailed)}
       \cup {FromEml(d, NoDomain, {}, t) : d \in {Empresa, LojaXyz}, t \in texts}

\* requests that exercise the brand guard
BrandRequests ==
  LET texts == TextsOf(BrandSentences)
  IN {FromImage(t) : t \in texts}
       \cup {FromEml(d, r, sj, t) :
               d \in {NoDomain, ItauOfficial, ItauSeguro, EvilItau,
                      BradescoOfficial, Empresa},
               r \in {NoDomain, ItauOfficial, ItauSeguro},
               sj \in {{}, {"itau"}}, t \in texts}

BrandConfigs ==
  {Config(k, a, o) : k \in BOOLEAN, a \in {FALLBACK_ALLOWED, CustomAllowed},
                     o \in {ItauFirst, BradescoFirst}}

NoOutcome == Early(ErrorResponse("none", ""), EmptyMeta)

FuseInput(x, ext) ==
  [pc |-> "input", source_type |-> x.source_type, content |-> x.content,
   meta0 |-> x.meta0, ext |-> ext, d |-> NoOutcome]

InitFuse ==
  /\ cache = [url |-> EmptyMap, img |-> EmptyMap, eml |-> EmptyMap, llm |-> EmptyMap]
  /\ now = 0
  /\ lastOp = "init"
  /\ nreq = 0
  /\ resp = NoResponse
  /\ ocr = OcrIdle
  /\ conc = ConcIdle
  /\ \/ /\ cfg \in Configs
        /\ safe \in FuseSafebooks
        /\ \E x \in ScoreRequests \cup WhitelistRequests :
             \E ext \in IF cfg.has_key THEN FuseExts ELSE {NoExt} :
               fuse = FuseInput(x, ext)
     \/ /\ cfg \in BrandConfigs
        /\ safe = Safebook(<< >>, << >>)
        /\ \E x \in BrandRequests :
             \E ext \in IF cfg.has_key THEN {ExtHigh, ExtLow} ELSE {NoExt} :
               fuse = FuseInput(x, ext)

\* analyze() on the request, with no entry in the cache
Evaluate ==
  /\ fuse.pc = "input"
  /\ fuse' = [fuse EXCEPT
                !.pc = "done",
                !.d = Handle(fuse.source_type, fuse.content, fuse.meta0, safe,
                             cfg, FALSE, NoLlm, fuse.ext)]
  /\ UNCHANGED <<cache, safe, now, cfg, lastOp, nreq, resp, ocr, conc>>

NextFuse == Evaluate

SpecFuse == InitFuse /\ [][NextFuse]_vars

----------------------------------------------------------------------------
(* heuristic_score as a function of a text and a metadata dict              *)
(* (specification SpecHeur): every metadata field it reads is absent,       *)
(* present with a harmless value, or present with a risky one.              *)

HeurTexts == {{}, {"plain"}, {"parabens"}, {"urgente", "relatorio"}}

\* the metadata dicts heuristic_score may be given
HeurMetas ==
  {[EmptyMeta EXCEPT
      !.source_type = st, !.link_domains = ln, !.url_accessible = ua,
      !.from_domain_suspect = tld, !.ocr_text_len = n,
      !.brand_impersonation_detected = bd] :
     st \in {"", "text", "image"}, ln \in {<< >>, <<Empresa>>, <<BitLy, SendGrid>>},
     ua \in {"absent", "true", "false"}, tld \in BOOLEAN, n \in {-1, 5, 40},
     bd \in BOOLEAN}

InitHeur ==
  /\ cache = [url |-> EmptyMap, img |-> EmptyMap, eml |-> EmptyMap, llm |-> EmptyMap]
  /\ safe \in InitialSafebooks
  /\ now = 0
  /\ cfg = Config(FALSE, FALLBACK_ALLOWED, ItauFirst)
  /\ lastOp = "init"
  /\ nreq = 0
  /\ resp = NoResponse
  /\ ocr = OcrIdle
  /\ conc = ConcIdle
  /\ \E t \in HeurTexts, m \in HeurMetas :
       fuse = [pc |-> "input", text |-> t, meta |-> m, heur |-> NoHeur]

\* heuristic_score(text, meta)
ScoreText ==
  /\ fuse.pc = "input"
  /\ fuse' = [fuse EXCEPT !.pc = "done",
                          !.heur = heuristic_score(fuse.text, fuse.meta)]
  /\ UNCHANGED <<cache, safe, now, cfg, lastOp, nreq, resp, ocr, conc>>

NextHeur == ScoreText

SpecHeur == InitHeur /\ [][NextHeur]_vars

----------------------------------------------------------------------------
(* ocr.py: ocr_from_image_file, one Tesseract pass per step (specification *)
(* SpecOcr).  Times are in milliseconds, confidences in points of 0..100.  *)

TIME_BUDGET_MS == 2200

EARLY_CONF_THRESHOLD == 70

EARLY_MIN_CHARS == 10

PSMS_FAST == <<6, 11>>

PSMS_FULL == <<6, 11, 3, 7, 8, 4, 13>>

\* _variants_fast, and _variants_full as it is without OpenCV
Variants(mode) ==
  IF mode = "FAST"
    THEN <<"fast_v_otsu", "fast_v_otsu_inv", "fast_v_gray_sharp">>
    ELSE <<"pil_bin170", "pil_bin150", "pil_bin130", "pil_inv", "pil_gray_sharp">>

Psms(mode) == IF mode = "FAST" THEN PSMS_FAST ELSE PSMS_FULL

\* wl_psms = ([6] if OCR_MODE == "FAST" else psms)
WlPsms(mode) == IF mode = "FAST" THEN <<6>> ELSE Psms(mode)

\* len() of the texts Tesseract may recognise
OcrLen == [curto |-> 3, textoA |-> 24, textoB |-> 31, textoC |-> 18]

\* _run_tesseract: the cleaned text and the mean confidence, or an exception
\* of the backend
Pass(raised, txt, conf) == [raised |-> raised, txt |-> txt, conf |-> conf]

PassOutcomes ==
  { Pass(TRUE, "", 0), Pass(FALSE, "", -1), Pass(FALSE, "curto", 90),
    Pass(FALSE, "textoA", 40), Pass(FALSE, "textoB", 69),
    Pass(FALSE, "textoC", 80) }

\* how long one pass may take
PassCosts == {100, 1200}

NoBest == [txt |-> "", conf |-> -1, some |-> FALSE]

\* if best is None or conf > best[1]: best = (txt, conf)
Better(best, txt, conf) ==
  IF txt # "" /\ (~best.some \/ conf > best.conf)
    THEN [txt |-> txt, conf |-> conf, some |-> TRUE]
    ELSE best

\* if conf >= EARLY_CONF_THRESHOLD and len(txt) >= EARLY_MIN_CHARS
EarlyExit(txt, conf) ==
  txt # "" /\ conf >= EARLY_CONF_THRESHOLD /\ OcrLen[txt] >= EARLY_MIN_CHARS

\* a budget check that never stops the loop
NeverOverBudget(elapsed, budget) == FALSE

\* if (time.time() - start) * 1000.0 > TIME_BUDGET_MS
OverBudget(elapsed, budget) == elapsed > budget

\* the call as it starts: OCR_MODE, whether OCR_WHITELIST is set, and
\* OCR_TIME_BUDGET_MS
OcrStart(mode, wl, budget) ==
  [pc |-> "loop", mode |-> mode, wl |-> wl, budget |-> budget, v |-> 1,
   phase |-> "plain", p |-> 1, best |-> NoBest, elapsed |-> 0, passes |-> 0,
   fallback |-> FALSE, result |-> "", last |-> Pass(FALSE, "", -1), top |-> NoBest]

\* what _run_tesseract gave in the pass of the loops that has just run (last),
\* and the text of the highest confidence as Tesseract reported it (top)
Noted(o, out) ==
  [o EXCEPT !.last = out, !.top = Better(@, out.txt, out.conf)]

OcrReturn(o, best, elapsed, txt) ==
  [o EXCEPT !.pc = "returned", !.best = best, !.elapsed = elapsed,
            !.passes = @ + 1, !.result = txt]

\* the place of the next pass, or the end of the loops
OcrAdvance(o, best, elapsed) ==
  LET o1 == [o EXCEPT !.best = best, !.elapsed = elapsed, !.passes = @ + 1]
      last == IF o.phase = "plain" THEN Len(Psms(o.mode)) ELSE Len(WlPsms(o.mode))
  IN IF o.p < last THEN [o1 EXCEPT !.p = @ + 1]
     ELSE IF o.phase = "plain" /\ o.wl THEN [o1 EXCEPT !.phase = "wl", !.p = 1]
     ELSE IF o.v < Len(Variants(o.mode))
       THEN [o1 EXCEPT !.v = @ + 1, !.phase = "plain", !.p = 1]
     ELSE IF best.some THEN [o1 EXCEPT !.pc = "returned", !.result = best.txt]
     ELSE [o1 EXCEPT !.pc = "fallback"]

\* one pass of the loops: the call is not inside a try, so an exception of the
\* backend leaves ocr_from_image_file
AfterPass(o, out, conf, cost) ==
  IF out.raised THEN [o EXCEPT !.pc = "raised", !.passes = @ + 1]
  ELSE IF EarlyExit(out.txt, conf)
    THEN OcrReturn(o, Better(o.best, out.txt, conf), o.elapsed + cost, out.txt)
  ELSE IF OverBudget(o.elapsed + cost, o.budget)
    THEN OcrReturn(o, Better(o.best, out.txt, conf), o.elapsed + cost,
                   Better(o.best, out.txt, conf).txt)
  ELSE OcrAdvance(o, Better(o.best, out.txt, conf), o.elapsed + cost)

OcrFrame == UNCHANGED <<cache, safe, now, cfg, lastOp, nreq, resp, fuse, conc>>

\* a pass without the character whitelist
OcrPlainPass ==
  /\ ocr.pc = "loop"
  /\ ocr.phase = "plain"
  /\ \E out \in PassOutcomes, cost \in PassCosts :
       ocr' = AfterPass(Noted(ocr, out), out, out.conf, cost)
  /\ OcrFrame

\* a pass with the character whitelist: conf_b = conf + 2.0
OcrWhitelistPass ==
  /\ ocr.pc = "loop"
  /\ ocr.phase = "wl"
  /\ \E out \in PassOutcomes, cost \in PassCosts :
       ocr' = AfterPass(Noted(ocr, out), out, out.conf + 2, cost)
  /\ OcrFrame

\* if best is None: the grayscale pass, inside try/except
OcrFallback ==
  /\ ocr.pc = "fallback"
  /\ \E out \in PassOutcomes :
       ocr' = [ocr EXCEPT
                 !.pc = "returned",
                 !.fallback = TRUE,
                 !.best = IF out.raised THEN @ ELSE
                            IF out.txt # ""
                              THEN [txt |-> out.txt, conf |-> out.conf, some |-> TRUE]
                              ELSE @,
                 !.result = IF out.raised THEN "" ELSE out.txt]
  /\ OcrFrame

InitOcr ==
  /\ cache = [url |-> EmptyMap, img |-> EmptyMap, eml |-> EmptyMap, llm |-> EmptyMap]
  /\ safe \in InitialSafebooks
  /\ now = 0
  /\ cfg = Config(FALSE, FALLBACK_ALLOWED, ItauFirst)
  /\ lastOp = "init"
  /\ nreq = 0
  /\ resp = NoResponse
  /\ fuse = FuseIdle
  /\ conc = ConcIdle
  /\ \E mode \in {"FAST", "AGGRESSIVE"}, wl \in BOOLEAN,
        budget \in {0, TIME_BUDGET_MS} :
       ocr = OcrStart(mode, wl, budget)

\* the image branch of analyze() on what the call gave: its text is the
\* content of the request, its exception reaches the handler's except
OcrAnalyze ==
  /\ ocr.pc \in {"returned", "raised"}
  /\ \E i \in Images :
       LET req == Request("image", {}, NoDomain, i)
           content == IF ocr.result = "" THEN {} ELSE {ocr.result}
       IN IF ocr.pc = "raised"
            THEN /\ cache' = cache
                 /\ resp' = Served(req, "image", {}, "fresh", NoExt,
                              Early(ErrorResponse("exception", "Falha na análise"),
                                    [EmptyMeta EXCEPT !.source_type = "image"]))
            ELSE ServeImage(req, content,
                   [cache EXCEPT !.img = setex(@, i, TTL_FILE,
                                   [content |-> content, meta |-> EmptyMeta], now)],
                   "fresh")
  /\ ocr' = [ocr EXCEPT !.pc = IF @ = "raised" THEN "failed" ELSE "analyzed"]
  /\ nreq' = nreq + 1
  /\ lastOp' = "analyze"
  /\ UNCHANGED <<safe, now, cfg, fuse, conc>>

NextOcr ==
  \/ OcrPlainPass
  \/ OcrWhitelistPass
  \/ OcrFallback
  \/ OcrAnalyze

SpecOcr == InitOcr /\ [][NextOcr]_vars

----------------------------------------------------------------------------
(* Concurrent requests (specification SpecConc): NThreads threads run       *)
(* analyze() on the same upload or URL.  TTLCache._lock is taken in one     *)
(* step and the body of get/setex runs, and the lock is released, in the    *)
(* next; a fetch, an OCR call and a classifier call each begin in one step  *)
(* and end in another.  A url: or eml: entry holds the meta dict of the     *)
(* thread that stored it (owner), so what that thread writes into its meta  *)
(* afterwards is written into the entry too.                                *)

\* how many threads serve requests at the same time
NThreads == 2

Threads == 1..NThreads

\* the requests the threads may all be given
ConcRequests ==
  {Request("image", {}, NoDomain, "img1"), Request("eml", {}, NoDomain, "eml1"),
   Request("eml", {}, NoDomain, "eml2"), Request("url", {}, SiteUrl, "")}

\* the prefix of the request's cache key
MapOf(req) ==
  IF req.kind = "url" THEN "url" ELSE IF req.kind = "image" THEN "img" ELSE "eml"

\* the fingerprint of the request
KeyOf(req) == IF req.kind = "url" THEN req.url ELSE req.file

SourceTypeOf(req) ==
  IF req.kind = "url" THEN "url" ELSE IF req.kind = "image" THEN "image" ELSE "email"

\* what the expensive extraction of the request may give
Extraction(raised, x) == [raised |-> raised, content |-> x[1], meta |-> x[2]]

ExtractOutcomes(req) ==
  IF req.kind = "image"
    THEN {Extraction(o.raised, <<o.text, EmptyMeta>>) : o \in OcrOutcomes}
  ELSE IF req.kind = "eml"
    THEN {Extraction(FALSE, extract_text_from_eml(req.file))}
  ELSE {Extraction(FALSE, extract_text_from_url(req.url, f)) :
          f \in FetchOutcomes(req.url)}

\* the answers of the external classifier the threads may get
ConcExts == {ExtError, ExtLow}

\* a thread at the top of analyze()
ThreadStart(source_type) ==
  [pc |-> "start", content |-> {}, meta |-> [EmptyMeta EXCEPT !.source_type = source_type],
   imp |-> NoVerdict, llm |-> NoLlm, llm_from |-> "none", extracts |-> 0,
   calls |-> 0, r |-> ErrorResponse("none", "")]

\* the value cache_set is given for the request's entry: for an image a dict
\* of its own, for a URL or an e-mail the thread's meta dict itself
FileEntry(req, t, content, meta) ==
  IF req.kind = "image"
    THEN [content |-> content, meta |-> EmptyMeta, owner |-> 0]
    ELSE [content |-> content, meta |-> meta, owner |-> t]

\* the cache after thread t wrote into its meta dict
Aliased(c, req, t, meta) ==
  LET m == MapOf(req)
      k == KeyOf(req)
  IN IF k \in DOMAIN c[m] /\ c[m][k].value.owner = t
       THEN [c EXCEPT ![m] = [@ EXCEPT ![k] = [@ EXCEPT !.value = [@ EXCEPT !.meta = meta]]]]
       ELSE c

ConcFrame == UNCHANGED <<safe, now, cfg, lastOp, nreq, resp, ocr, fuse>>

\* the thread moves to pc with the fields of upd replaced
Moved(t, lk, pc, upd) ==
  conc' = [conc EXCEPT
             !.lock = lk,
             !.th = [@ EXCEPT ![t] = [f \in DOMAIN conc.th[t] |->
                        IF f = "pc" THEN pc
                        ELSE IF f \in DOMAIN upd THEN upd[f] ELSE conc.th[t][f]]]]

\* the exit through "except Exception"
Failed(t) ==
  Moved(t, conc.lock, "done", [r |-> ErrorResponse("exception", "Falha na análise")])

\* "with self._lock" in TTLCache.get and TTLCache.setex
ConcAcquire ==
  /\ conc.lock = 0
  /\ \E t \in Threads :
       /\ conc.th[t].pc \in {"start", "file_set", "llm_get", "llm_set"}
       /\ Moved(t, t,
                CASE conc.th[t].pc = "start" -> "file_get"
                  [] conc.th[t].pc = "file_set" -> "file_setex"
                  [] conc.th[t].pc = "llm_get" -> "llm_get_locked"
                  [] conc.th[t].pc = "llm_set" -> "llm_setex",
                << >>)
  /\ UNCHANGED cache
  /\ ConcFrame

\* the body of TTLCache.get for the request's entry: on a hit the content is
\* taken and the entry's meta is copied into the thread's own dict
ConcFileGet ==
  /\ \E t \in Threads :
       LET m == MapOf(conc.req)
           k == KeyOf(conc.req)
       IN /\ conc.th[t].pc = "file_get"
          /\ cache' = [cache EXCEPT ![m] = AfterGet(@, k, now)]
          /\ IF Live(cache[m], k, now)
               THEN Moved(t, 0, "extracted",
                          [content |-> cache[m][k].value.content,
                           meta |-> IF conc.req.kind = "image" THEN conc.th[t].meta
                                    ELSE [cache[m][k].value.meta EXCEPT
                                            !.source_type = SourceTypeOf(conc.req)]])
               ELSE Moved(t, 0, "extract", << >>)
  /\ ConcFrame

\* extract_text_from_url, ocr_from_image_file or extract_text_from_eml begins
ConcExtractStart ==
  /\ \E t \in Threads :
       /\ conc.th[t].pc = "extract"
       /\ Moved(t, conc.lock, "extracting", [extracts |-> conc.th[t].extracts + 1])
  /\ UNCHANGED cache
  /\ ConcFrame

\* ... and ends: with the content and meta, or (OCR) with an exception
ConcExtractEnd ==
  /\ \E t \in Threads :
       /\ conc.th[t].pc = "extracting"
       /\ \E x \in ExtractOutcomes(conc.req) :
            IF x.raised THEN Failed(t)
            ELSE Moved(t, conc.lock, "file_set",
                       [content |-> x.content,
                        meta |-> IF conc.req.kind = "image" THEN conc.th[t].meta
                                 ELSE [x.meta EXCEPT
                                         !.source_type = SourceTypeOf(conc.req)]])
  /\ UNCHANGED cache
  /\ ConcFrame

\* the body of TTLCache.setex for the request's entry
ConcFileSetex ==
  /\ \E t \in Threads :
       /\ conc.th[t].pc = "file_setex"
       /\ cache' = [cache EXCEPT ![MapOf(conc.req)] =
                      setex(@, KeyOf(conc.req),
                            IF conc.req.kind = "url" THEN TTL_URL ELSE TTL_FILE,
                            FileEntry(conc.req, t, conc.th[t].content, conc.th[t].meta),
                            now)]
       /\ Moved(t, 0, "extracted", << >>)
  /\ ConcFrame

\* meta["ocr_text_len"], the answers for an empty content, and the whitelist
\* flags written into meta
ConcWhitelist ==
  /\ \E t \in Threads :
       LET th == conc.th[t]
           meta1 == IF conc.req.kind = "image"
                      THEN [th.meta EXCEPT !.ocr_text_len = TextLen(th.content)]
                      ELSE th.meta
       IN /\ th.pc = "extracted"
          /\ IF IsBlank(th.content)
               THEN /\ Moved(t, conc.lock, "done",
                             [meta |-> meta1,
                              r |-> IF conc.req.kind = "image" THEN OcrEmptyResponse
                                    ELSE NoContent(meta1).r])
                    /\ UNCHANGED cache
               ELSE /\ Moved(t, conc.lock, "flagged",
                             [meta |-> WhitelistFlags(meta1, th.content, safe)])
                    /\ cache' = Aliased(cache, conc.req, t,
                                        WhitelistFlags(meta1, th.content, safe))
  /\ ConcFrame

\* the brand fields written into meta, then the two forced answers
BrandStep(t, source_type, content, imp, meta2) ==
  /\ cache' = Aliased(cache, conc.req, t, meta2)
  /\ IF imp.critical_impersonation
       THEN Moved(t, conc.lock, "done",
                  [meta |-> meta2, imp |-> imp, r |-> CriticalOverride(meta2, imp).r])
     ELSE IF ImageRule(source_type, content, meta2)
       THEN Moved(t, conc.lock, "done",
                  [meta |-> meta2, imp |-> imp, r |-> ImageOverride(meta2, imp).r])
     ELSE Moved(t, conc.lock, "llm_get", [meta |-> meta2, imp |-> imp])

BrandVerdict(t, source_type, content, meta1, imp) ==
  BrandStep(t, source_type, content, imp, BrandFields(meta1, imp))

ConcBrand ==
  /\ \E t \in Threads :
       /\ conc.th[t].pc = "flagged"
       /\ BrandVerdict(t, SourceTypeOf(conc.req), conc.th[t].content, conc.th[t].meta,
                       detect_brand_impersonation(conc.th[t].meta, conc.th[t].content,
                                                  cfg.allowed, cfg.order))
  /\ ConcFrame

\* the body of TTLCache.get for the llm: entry
ConcLlmGet ==
  /\ \E t \in Threads :
       LET k == <<SourceTypeOf(conc.req), conc.th[t].content>>
       IN /\ conc.th[t].pc = "llm_get_locked"
          /\ cache' = [cache EXCEPT !.llm = AfterGet(@, k, now)]
          /\ IF Live(cache.llm, k, now)
               THEN Moved(t, 0, "respond",
                          [llm |-> cache.llm[k].value, llm_from |-> "cache"])
               ELSE Moved(t, 0, "call", << >>)
  /\ ConcFrame

\* llm_analyze begins: without a key it returns at once, with a key the
\* external call is made
ConcCallStart ==
  /\ \E t \in Threads :
       /\ conc.th[t].pc = "call"
       /\ IF cfg.has_key
            THEN Moved(t, conc.lock, "calling", [calls |-> conc.th[t].calls + 1])
            ELSE Moved(t, conc.lock, "llm_set",
                       [llm |-> llm_analyze(conc.th[t].content, conc.th[t].meta,
                                            FALSE, NoExt),
                        llm_from |-> "call"])
  /\ UNCHANGED cache
  /\ ConcFrame

\* the external call ends
ConcCallEnd ==
  /\ \E t \in Threads :
       /\ conc.th[t].pc = "calling"
       /\ \E ext \in ConcExts :
            IF ext.kind = "error" THEN Failed(t)
            ELSE Moved(t, conc.lock, "llm_set",
                       [llm |-> llm_analyze(conc.th[t].content, conc.th[t].meta,
                                            TRUE, ext),
                        llm_from |-> "call"])
  /\ UNCHANGED cache
  /\ ConcFrame

\* the body of TTLCache.setex for the llm: entry
ConcLlmSetex ==
  /\ \E t \in Threads :
       /\ conc.th[t].pc = "llm_setex"
       /\ cache' = [cache EXCEPT !.llm =
                      setex(@, <<SourceTypeOf(conc.req), conc.th[t].content>>,
                            TTL_LLM, conc.th[t].llm, now)]
       /\ Moved(t, 0, "respond", << >>)
  /\ ConcFrame

\* combine_scores and the rendered response
ConcRespond ==
  /\ \E t \in Threads :
       /\ conc.th[t].pc = "respond"
       /\ Moved(t, conc.lock, "done",
                [r |-> Blend(conc.th[t].content, conc.th[t].meta, conc.th[t].imp,
                             heuristic_score(conc.th[t].content, conc.th[t].meta),
                             conc.th[t].llm, conc.th[t].llm_from).r])
  /\ UNCHANGED cache
  /\ ConcFrame

InitConc ==
  /\ cache = [url |-> EmptyMap, img |-> EmptyMap, eml |-> EmptyMap, llm |-> EmptyMap]
  /\ safe = Safebook(<<SiteDomain>>, << >>)
  /\ now = 0
  /\ cfg \in Configs
  /\ lastOp = "init"
  /\ nreq = 0
  /\ resp = NoResponse
  /\ ocr = OcrIdle
  /\ fuse = FuseIdle
  /\ \E req \in ConcRequests :
       conc = [pc |-> "run", req |-> req, lock |-> 0,
               th |-> [t \in Threads |-> ThreadStart(SourceTypeOf(req))]]

NextConc ==
  \/ ConcAcquire
  \/ ConcFileGet
  \/ ConcExtractStart
  \/ ConcExtractEnd
  \/ ConcFileSetex
  \/ ConcWhitelist
  \/ ConcBrand
  \/ ConcLlmGet
  \/ ConcCallStart
  \/ ConcCallEnd
  \/ ConcLlmSetex
  \/ ConcRespond

SpecConc == InitConc /\ [][NextConc]_vars

----------------------------------------------------------------------------
(* Properties of the request handlers (specification Spec) *)

\* the set of the entries of a list
Range(q) == {q[i] : i \in 1..Len(q)}

\* C5: llm_analyze never hands a failure of the external classifier to its
\* caller: every call returns a verdict, and without an API key, or when the
\* call times out or fails in transport, that verdict is the default one
\* (label ok, risk 0.2, confidence 0.4).
C5_LlmNeverPropagates ==
  resp.llm_from = "call" =>
    /\ ~resp.llm.raised
    /\ (~cfg.has_key \/ resp.ext.kind = "error") =>
         /\ resp.llm.label = "ok"
         /\ resp.llm.risk_score_llm = 2000
         /\ resp.llm.confidence_llm = 4000

\* C6: two consecutive requests with the same image or .eml file give the
\* same label and the same set of red flags: the request answered from the
\* file cache reproduces the outcome of the one before it.
C6_SameFileSameOutcome ==
  [][ ( /\ lastOp = "analyze"
        /\ lastOp' = "analyze"
        /\ resp.req.kind \in {"image", "eml"}
        /\ resp'.req = resp.req
        /\ resp'.file_from = "cache" )
      => /\ resp'.r.label = resp.r.label
         /\ Range(resp'.r.red_flags) = Range(resp.r.red_flags) ]_vars

\* C10: a URL request whose page is plain corporate text, whose domain is
\* whitelisted and whose fetch was 2xx without redirects is answered 'ok'
\* with a risk below 35%, whatever verdict the classifier gave and whatever
\* requests came before, also when the verdict is taken from the cache.
C10_WhitelistedPlainUrlIsOk ==
  ( /\ resp.req.kind = "url"
    /\ resp.content = {"plain"}
    /\ resp.meta.domain_whitelisted
    /\ https_2xx_no_chain(resp.meta)
    /\ resp.llm_from # "none"
    /\ ~resp.llm.raised )
  => /\ resp.r.label = "ok"
     /\ resp.r.risk_pct < 350

----------------------------------------------------------------------------
(* Properties of analyze() on one request (specification SpecFuse) *)

Done == fuse.pc = "done"

\* C1: whenever detect_brand_impersonation gives critical_impersonation for
\* a request, analyze() answers 'fraude' with risk 95.0% and confidence
\* 90.0%, whatever the heuristic score and the classifier verdict are or
\* would have been.
C1_CriticalIsFraud ==
  (Done /\ fuse.d.imp.critical_impersonation)
  => /\ fuse.d.r.label = "fraude"
     /\ fuse.d.r.risk_pct = 950
     /\ fuse.d.r.conf_pct = 900

\* a critical verdict on a request whose heuristic score is low and whose
\* classifier would have said ok
C1_Witness ==
  /\ Done
  /\ fuse.d.imp.critical_impersonation
  /\ cfg.has_key
  /\ fuse.ext = ExtLow
  /\ heuristic_score(fuse.content, fuse.d.meta).score < 3500
  /\ fuse.d.r.label = "fraude"

\* C2: every response that carries a label has its risk and its confidence
\* between 0% and 100%, on every path that makes one.
C2_PercentagesInRange ==
  (Done /\ fuse.d.r.label # "")
  => /\ fuse.d.r.risk_pct \in 0..1000
     /\ fuse.d.r.conf_pct \in 0..1000

\* a fused response whose classifier numbers were outside [0, 1] and whose
\* weighted sum with the high-severity boost exceeds 1
C2_Witness ==
  /\ Done
  /\ fuse.d.r.path = "blend"
  /\ fuse.ext = ExtOutOfRange
  /\ fuse.d.heur.score = 10000
  /\ fuse.d.llm.risk_score_llm = 10000
  /\ _has_any(fuse.content, HIGH_SEVERITY_TOKENS)
  /\ fuse.d.r.risk_pct = 1000

\* the domain is given, the brand has official domains, and the domain ends
\* with none of them
Mismatch(dom, official) ==
  dom # NoDomain /\ official # << >> /\ OutsideAll(dom, official)

\* C3: for a brand found in the request that has a non-empty official list,
\* whenever the registered domain of the sender or of the reply-to is given
\* and ends with none of the official domains, the verdict is critical with a
\* reason naming the mismatched domain and the official set; so an e-mail from
\* itau-seguro.net that mentions Itaú is answered 'fraude' with risk >= 90%.
C3_MismatchIsCritical ==
  (Done /\ ~IsBlank(fuse.content))
  => LET from_reg == fuse.meta0.from_registered_domain
         reply_reg == fuse.meta0.reply_to_registered_domain
         imp == fuse.d.imp
     IN (\E b \in _candidate_brands(fuse.meta0, fuse.content) :
           \/ Mismatch(from_reg, brand_to_domains(cfg.allowed, canonical(b)))
           \/ Mismatch(reply_reg, brand_to_domains(cfg.allowed, canonical(b))))
        => /\ imp.critical_impersonation
           /\ imp.reason.dom \in {from_reg, reply_reg}
           /\ imp.reason.offs = brand_to_domains(cfg.allowed, imp.brand)
           /\ Mismatch(imp.reason.dom, imp.reason.offs)
           /\ fuse.d.r.label = "fraude"
           /\ fuse.d.r.risk_pct >= 900

\* the e-mail from itau-seguro.net that mentions Itaú
C3_Witness ==
  /\ Done
  /\ fuse.source_type = "email"
  /\ fuse.meta0.from_registered_domain = ItauSeguro
  /\ (fuse.meta0.subject \cup fuse.content) \cap BRAND_PATTERNS["itau"] # {}
  /\ fuse.d.imp.critical_impersonation
  /\ fuse.d.imp.reason = ReasonFrom("itau", ItauSeguro, <<ItauOfficial>>)
  /\ fuse.d.r.label = "fraude"
  /\ fuse.d.r.risk_pct >= 900

\* C4: when the request's meta has domain_whitelisted, the fetch was 2xx
\* without a redirect chain and the text has no sensitive keyword (senha,
\* token, código, pix, documento, selfie), the label is never 'fraude',
\* whatever the external classifier outputs.
C4_WhitelistedNeverFraud ==
  ( /\ Done
    /\ fuse.d.meta.domain_whitelisted
    /\ https_2xx_no_chain(fuse.d.meta)
    /\ fuse.content \cap DampenerPattern = {} )
  => fuse.d.r.label # "fraude"

\* C9: a text holding a high-severity token is never labelled 'ok'; and the
\* text "Parabéns! Você ganhou um prêmio, clique aqui para resgatar" gets the
\* red flags of the prize/CTA trigger and of the sensitive-action request and
\* a label among suspeito and fraude.
C9_HighSeverityNeverOk ==
  Done =>
    /\ (fuse.d.r.label # "" /\ _has_any(fuse.content, HIGH_SEVERITY_TOKENS))
       => fuse.d.r.label \in {"suspeito", "fraude"}
    /\ (fuse.content = {"parabens"} /\ fuse.d.r.path \in {"blend", "exception"})
       => {Flag("gatilhos de prêmio/sorteio/CTA."),
           Flag("pedido de ação sensível/contato externo.")}
            \subseteq Range(fuse.d.heur.red_flags)

\* the prize text with a fused risk below the 'suspeito' threshold
C9_Witness ==
  /\ Done
  /\ fuse.content = {"parabens"}
  /\ fuse.d.r.path = "blend"
  /\ fuse.d.final < 350000
  /\ fuse.d.r.label = "suspeito"

\* C13: detect_brand_impersonation gives the same verdict, field by field,
\* for the same metadata, text and allowlist whatever the iteration order of
\* the set of candidate brands is, also when the text names several brands.
C13_BrandVerdictIgnoresOrder ==
  (Done /\ fuse.d.r.path \in {"critical", "image_rule", "blend", "exception"})
  => \A o \in {ItauFirst, BradescoFirst} :
       detect_brand_impersonation(fuse.meta0, fuse.content, cfg.allowed, o)
         = fuse.d.imp

\* C16: when the classifier's answer cannot be parsed, not even between its
\* first '{' and its last '}' (also when it has no braces at all), llm_analyze
\* does not raise and returns the default verdict (ok, 0.2, 0.4) with a
\* non-empty note in 'explanation'.
C16_UnparsableGivesDefaultWithNote ==
  (Done /\ fuse.d.llm_from = "call" /\ cfg.has_key
        /\ fuse.ext.kind \in {"garbage", "badbraces"})
  => /\ ~fuse.d.llm.raised
     /\ fuse.d.llm.label = "ok"
     /\ fuse.d.llm.risk_score_llm = 2000
     /\ fuse.d.llm.confidence_llm = 4000
     /\ fuse.d.llm.explanation # ""

\* the request reached heuristic_score
\* the request got as far as the brand verdict
Judged == Done /\ fuse.d.r.path \in {"critical", "image_rule", "blend", "exception"}

\* neither score was computed, and no classifier answer, fresh or cached,
\* changes the response
ScoresIgnored ==
  /\ fuse.d.heur = NoHeur /\ fuse.d.llm = NoLlm /\ fuse.d.llm_from = "none"
  /\ \A e \in FuseExts, k \in BOOLEAN :
       Decided(fuse.source_type, fuse.content, fuse.d.meta, fuse.d.imp,
               Config(k, cfg.allowed, cfg.order), FALSE, NoLlm, e).r = fuse.d.r
  /\ \A e \in FuseExts :
       Decided(fuse.source_type, fuse.content, fuse.d.meta, fuse.d.imp, cfg, TRUE,
               llm_analyze(fuse.content, fuse.d.meta, TRUE, e), NoExt).r = fuse.d.r

\* C19: the two absolute overrides come before the blend and in a fixed
\* order: a critical brand verdict gives "fraude" 95/90; otherwise, for an
\* image only, prize language together with a brand mention gives "fraude"
\* 92/82 with the fixed action list; when either fires, the heuristic score
\* and the classifier verdict do not influence the response.
C19_OverridesBeforeBlend ==
  Judged =>
    /\ fuse.d.r.path = "critical" <=> fuse.d.imp.critical_impersonation
    /\ fuse.d.r.path = "critical"
         => /\ fuse.d.r.label = "fraude"
            /\ fuse.d.r.risk_pct = 950 /\ fuse.d.r.conf_pct = 900
            /\ fuse.d.r.actions = CriticalActions
            /\ ScoresIgnored
    /\ fuse.d.r.path = "image_rule"
         <=> /\ ~fuse.d.imp.critical_impersonation
             /\ fuse.source_type = "image"
             /\ _has_prize_cta(fuse.content)
             /\ \/ _has_brand_words(fuse.content)
                \/ fuse.d.meta.brand_impersonation_detected
    /\ fuse.d.r.path = "image_rule"
         => /\ fuse.d.r.label = "fraude"
            /\ fuse.d.r.risk_pct = 920 /\ fuse.d.r.conf_pct = 820
            /\ fuse.d.r.actions = ImageRuleActions
            /\ ScoresIgnored

\* an image with prize language and a brand mention, analysed while the
\* classifier would have answered "ok"
C19_Witness ==
  /\ Done
  /\ fuse.d.r.path = "image_rule"
  /\ fuse.source_type = "image"
  /\ cfg.has_key
  /\ fuse.ext.label = "ok"

\* C22: when a brand is mentioned and the metadata has neither a sender nor a
\* reply-to registered domain, the verdict is detected and not critical; when
\* no brand pattern matches, it is neither; a critical verdict is always a
\* detected one.
C22_VerdictWithoutDomains ==
  Judged =>
    /\ ( /\ _candidate_brands(fuse.meta0, fuse.content) # {}
         /\ fuse.meta0.from_registered_domain = NoDomain
         /\ fuse.meta0.reply_to_registered_domain = NoDomain )
       => (fuse.d.imp.detected /\ ~fuse.d.imp.critical_impersonation)
    /\ _candidate_brands(fuse.meta0, fuse.content) = {}
       => (~fuse.d.imp.detected /\ ~fuse.d.imp.critical_impersonation)
    /\ fuse.d.imp.critical_impersonation => fuse.d.imp.detected

\* a plain text that mentions a brand
C22_Witness ==
  /\ Judged
  /\ fuse.source_type = "text"
  /\ _candidate_brands(fuse.meta0, fuse.content) # {}
  /\ fuse.d.imp.detected
  /\ ~fuse.d.imp.critical_impersonation

\* C23: when the fetch of the URL fails with a network error,
\* extract_text_from_url returns an explanatory text and url_accessible
\* false, and analyze() answers with a labelled verdict whose red flags
\* include "link inacessível." and not with a failure message.
C23_FailedFetchIsLabelled ==
  ( /\ Done
    /\ fuse.source_type = "url"
    /\ fuse.meta0.status_code = 0
    /\ fuse.meta0.url_accessible = "false" )
  => /\ ~IsBlank(fuse.content)
     /\ fuse.d.r.error = ""
     /\ fuse.d.r.label \in {"ok", "suspeito", "fraude"}
     /\ Flag("link inacessível.") \in Range(fuse.d.r.red_flags)

\* the positions of q that hold a value for the first time
Firsts(q) == {j \in 1..Len(q) : \A k \in 1..(j - 1) : q[k] # q[j]}

\* q without repetitions, each value at its first place, cut after n values
FirstSeen(q, n) ==
  [i \in 1..Min(n, Cardinality(Firsts(q))) |->
     q[CHOOSE j \in Firsts(q) : Cardinality({x \in Firsts(q) : x <= j}) = i]]

\* C25: no red-flag list of a response holds a value twice; on the blend
\* path the list is the classifier's flags followed by the heuristic's, each
\* value kept at its first occurrence and in the original order, cut to 12
\* entries, and the action list has at most 10 entries.
C25_FlagsDedupedAndCapped ==
  Done =>
    /\ \A i, j \in 1..Len(fuse.d.r.red_flags) :
         fuse.d.r.red_flags[i] = fuse.d.r.red_flags[j] => i = j
    /\ fuse.d.r.path = "blend"
         => /\ fuse.d.r.red_flags
                 = FirstSeen(fuse.d.llm.red_flags \o fuse.d.heur.red_flags, 12)
            /\ Len(fuse.d.r.red_flags) <= 12
            /\ Len(fuse.d.r.actions) <= 10

\* the classifier lists twelve flags and eleven actions, one flag of which
\* the heuristic raises too
C25_Witness ==
  /\ Done
  /\ fuse.d.r.path = "blend"
  /\ Len(fuse.d.llm.red_flags) = 12
  /\ Flag("tom de urgência/ameaça.") \in Range(fuse.d.heur.red_flags)
  /\ Len(fuse.d.heur.red_flags) > 1
  /\ Len(fuse.d.r.red_flags) = 12
  /\ Len(fuse.d.llm.actions) = 11
  /\ Len(fuse.d.r.actions) = 10

\* C27: when the sender's registered domain is an official domain of a brand
\* the message mentions and there is no reply-to, the verdict is not
\* critical, also when the message mentions other brands as well.
C27_OfficialSenderNotCritical ==
  ( /\ Judged
    /\ fuse.meta0.reply_to_registered_domain = NoDomain
    /\ \E b \in _candidate_brands(fuse.meta0, fuse.content) :
         InSeq(fuse.meta0.from_registered_domain,
               brand_to_domains(cfg.allowed, canonical(b))) )
  => ~fuse.d.imp.critical_impersonation

\* dom is the domain od or a subdomain of it: od preceded by a dot
SameOrSubdomain(dom, od) ==
  \/ dom = od
  \/ /\ EndsWith(dom, od) /\ Len(dom) > Len(od)
     /\ dom[Len(dom) - Len(od)] = "."

\* C28: the verdict is critical for every non-empty registered domain of the
\* sender that is neither an official domain of the mentioned brand nor a
\* subdomain of one, also when its string merely ends with an official
\* domain without a label boundary (evilitau.com.br against itau.com.br).
C28_LookalikeSenderIsCritical ==
  ( /\ Judged
    /\ fuse.meta0.from_registered_domain # NoDomain
    /\ \E b \in _candidate_brands(fuse.meta0, fuse.content) :
         /\ brand_to_domains(cfg.allowed, canonical(b)) # << >>
         /\ \A k \in 1..Len(brand_to_domains(cfg.allowed, canonical(b))) :
              ~SameOrSubdomain(fuse.meta0.from_registered_domain,
                               brand_to_domains(cfg.allowed, canonical(b))[k]) )
  => fuse.d.imp.critical_impersonation

\* C30: domain_whitelisted is set exactly when the host of the analysed URL
\* (final_url, else url) is a whitelisted domain or a subdomain of one,
\* whatever the path, the query string or a trailing slash; phrase_whitelisted
\* is set exactly when a whitelisted phrase occurs in the content.
C30_WhitelistMatchesHost ==
  Judged =>
    /\ fuse.d.meta.domain_whitelisted
         <=> \E i \in 1..Len(safe.domains) :
               SameOrSubdomain(HostOf(UrlOf(fuse.meta0)), safe.domains[i])
    /\ fuse.d.meta.phrase_whitelisted
         <=> \E i \in 1..Len(safe.phrases) :
               fuse.content \cap PhraseSentences[safe.phrases[i]] # {}

\* the request reached combine_scores
Combined == Done /\ fuse.d.r.path = "blend"

\* the blended risk before the label is chosen, in units of 1/1000000
ClampedBlend ==
  Max(0, Min(1000000,
    55 * fuse.d.heur.score + 45 * fuse.d.llm.risk_score_llm
      + W(_has_any(fuse.content, HIGH_SEVERITY_TOKENS), 80000)
      + W(fuse.d.meta.brand_impersonation_detected, 60000)))

Scored == Done /\ fuse.d.r.path \in {"blend", "exception"}

\* C11: heuristic_score never goes down when one more high-severity token is
\* added to the text and the metadata stays the same: the score of the text
\* with a further sentence holding a high-severity token is at least the
\* score of the text without it.
C11_MoreTokensNeverLower ==
  Scored =>
    \A t \in HIGH_SEVERITY_TOKENS \ fuse.content :
      heuristic_score(fuse.content \cup {t}, fuse.d.meta).score
        >= fuse.d.heur.score

----------------------------------------------------------------------------
(* Properties of ocr_from_image_file (specification SpecOcr) *)

\* the call is over and none of its passes recognised any text
NoTextExtracted ==
  ocr.pc \in {"returned", "raised", "analyzed", "failed"} /\ ~ocr.best.some

\* C12: for an image from which no text is extracted, also when the time
\* budget runs out during the scan, ocr_from_image_file returns the empty
\* text without raising, and analyze() answers with a label and a red flag
\* that records the missing text, not with a failure.
C12_NoTextIsFlagged ==
  NoTextExtracted =>
    /\ ocr.pc \notin {"raised", "failed"}
    /\ ocr.result = ""
    /\ ocr.pc = "analyzed" =>
         /\ resp.r.path # "exception"
         /\ resp.r.label = "suspeito"
         /\ Flag("Imagem sem texto reconhecível pelo OCR.")
              \in Range(resp.r.red_flags)

\* C7: an exception raised by the OCR backend in one pass only skips that
\* pass: ocr_from_image_file never raises, and when every pass fails it
\* returns the empty text.
C7_PassFailureIsSkipped ==
  /\ ocr.pc # "raised"
  /\ (ocr.pc = "returned" /\ ~ocr.best.some) => ocr.result = ""

Looked(r, m, k) ==
  \/ /\ r.req.kind \in {"url", "image", "eml"}
     /\ m = MapOf(r.req) /\ k = KeyOf(r.req)
  \/ /\ r.llm_from # "none"
     /\ m = "llm" /\ k = <<r.source_type, r.content>>

\* response r was made from the value v that the lookup in map m returned
FromCache(r, m, v) ==
  IF m = "llm" THEN r.llm_from = "cache" /\ r.llm = v
  ELSE r.file_from = "cache" /\ r.content = v.content

\* the lookup in map m of the request of response r returned None
Missed(r, m) == IF m = "llm" THEN r.llm_from = "call" ELSE r.file_from = "fresh"

TtlOf(m) == IF m = "url" THEN TTL_URL ELSE IF m = "llm" THEN TTL_LLM ELSE TTL_FILE

\* C20: TTLCache.get returns the value of the latest setex while the expiry
\* time of the entry has not passed; the first get after it returns None and
\* removes the entry; an entry is removed by nothing else, and an entry of a
\* key that was not looked up stays as it is.
C20_LazyExpiry ==
  [][ \A m \in {"url", "img", "eml", "llm"} :
        \A k \in DOMAIN cache[m] :
          IF nreq' = nreq + 1 /\ Looked(resp', m, k)
            THEN IF cache[m][k].exp < now
                   THEN /\ Missed(resp', m)
                        /\ k \in DOMAIN cache'[m]
                             => cache'[m][k].exp = now + TtlOf(m)
                   ELSE /\ FromCache(resp', m, cache[m][k].value)
                        /\ k \in DOMAIN cache'[m]
                        /\ cache'[m][k] = cache[m][k]
            ELSE /\ k \in DOMAIN cache'[m]
                 /\ cache'[m][k] = cache[m][k] ]_vars

\* a URL is requested again exactly at the expiry time of its entry and is
\* served from the cache
C20_Witness ==
  /\ lastOp = "analyze"
  /\ resp.req.kind = "url"
  /\ resp.file_from = "cache"
  /\ cache.url[resp.req.url].exp = now

\* C21: a POST /whitelist with a new item of type domain or phrase ends: the
\* item is in the list and _safe_lock is free again, so a later whitelist
\* request can take the lock.
C21_WhitelistReleasesLock ==
  lastOp = "whitelist" => ~safe.locked

\* C26: the classifier verdict a response is fused from is one llm_analyze
\* gives for the request's own content and metadata: an llm: entry is not
\* reused for a request whose metadata differs from that of the request that
\* stored it.
C26_CachedVerdictFitsRequest ==
  (lastOp = "analyze" /\ resp.llm_from = "cache")
  => \E e \in ExtOutcomes \cup {NoExt} :
       llm_analyze(resp.content, resp.meta, cfg.has_key, e) = resp.llm

\* C29: a request that ends on an override, on the empty-OCR answer or on an
\* input error calls neither the classifier nor the heuristic engine and
\* leaves every llm: entry as it was: none is created, replaced or removed.
C29_EarlyPathsLeaveLlmCache ==
  [][ ( /\ nreq' = nreq + 1
        /\ resp'.r.path \in {"critical", "image_rule", "ocr_empty", "input_error"} )
      => /\ cache'.llm = cache.llm
         /\ resp'.llm_from = "none"
         /\ resp'.ext = NoExt
         /\ resp'.llm = NoLlm
         /\ resp'.heur = NoHeur ]_vars

\* a critical verdict answered while the classifier is configured and the
\* llm: map holds the entry of an earlier request
C29_Witness ==
  /\ lastOp = "analyze"
  /\ nreq = 2
  /\ cfg.has_key
  /\ resp.r.path = "critical"
  /\ resp.llm_from = "none"
  /\ DOMAIN cache.llm # {}

----------------------------------------------------------------------------
(* Properties of heuristic_score (specification SpecHeur) *)

\* the red flag is among those heuristic_score returned
Flagged_(m) == Flag(m) \in Range(fuse.heur.red_flags)

\* C17: heuristic_score takes missing metadata as neutral: the rules on link
\* shorteners, unreachable links, the sender's TLD, tracking domains, little
\* OCR text and brand impersonation add their red flag only when their field
\* is present with a risky value, and a dict without ocr_text_len scores as
\* one whose OCR text is long.
C17_MissingMetadataIsNeutral ==
  fuse.pc = "done" =>
    /\ Flagged_("uso de encurtador de link.")
         => \E i \in 1..Len(fuse.meta.link_domains) :
              fuse.meta.link_domains[i] \in SHORTENER_DOMAINS
    /\ Flagged_("link inacessível.") => fuse.meta.url_accessible = "false"
    /\ Flagged_("remetente/domínio com TLD incomum.") => fuse.meta.from_domain_suspect
    /\ Flagged_("links de tracking/ESP.")
         => \E i \in 1..Len(fuse.meta.link_domains) :
              fuse.meta.link_domains[i] \in TRACKING_DOMAINS_HINT
    /\ Flagged_("impersonation de marca.") => fuse.meta.brand_impersonation_detected
    /\ Flagged_("pouco texto reconhecido (OCR).")
         => fuse.meta.ocr_text_len \in 0..19
    /\ fuse.meta.ocr_text_len = -1
         => fuse.heur = heuristic_score(fuse.text, [fuse.meta EXCEPT !.ocr_text_len = 40])

\* the pass has a non-empty text of at least EARLY_MIN_CHARS characters and
\* a confidence of at least EARLY_CONF_THRESHOLD
Qualifies(pass) ==
  /\ ~pass.raised /\ pass.txt # ""
  /\ pass.conf >= EARLY_CONF_THRESHOLD
  /\ OcrLen[pass.txt] >= EARLY_MIN_CHARS

\* C24: ocr_from_image_file returns the text of the first pass whose text is
\* non-empty with confidence >= EARLY_CONF_THRESHOLD and length >=
\* EARLY_MIN_CHARS and runs no pass after it; when no pass qualifies and the
\* budget is never exceeded it returns the text of the highest-confidence
\* pass with text (the earliest on ties), and the grayscale fallback runs
\* only if no pass gave any text.
C24_FirstQualifyingElseBest ==
  /\ ocr.pc \in {"loop", "fallback"} => ~Qualifies(ocr.last)
  /\ (ocr.pc \in {"fallback", "returned", "raised", "analyzed", "failed"}
        /\ Qualifies(ocr.last))
     => /\ ocr.pc \in {"returned", "analyzed"}
        /\ ocr.result = ocr.last.txt
        /\ ~ocr.fallback
  /\ (ocr.pc \in {"returned", "raised", "analyzed", "failed"}
        /\ ~Qualifies(ocr.last) /\ ocr.elapsed <= ocr.budget)
     => /\ ocr.pc \in {"returned", "analyzed"}
        /\ ocr.top.some => ocr.result = ocr.top.txt
  /\ (ocr.pc = "fallback" \/ ocr.fallback) => ~ocr.top.some

----------------------------------------------------------------------------
(* Properties of concurrent requests (specification SpecConc) *)

\* the step is the body of a TTLCache.setex
SetexStep ==
  \E t \in Threads :
    /\ conc.th[t].pc \in {"file_setex", "llm_setex"}
    /\ conc'.th[t].pc # conc.th[t].pc

\* C14: a value stored in the cache is not changed once cache_set has
\* returned: what the same or another request writes into its meta later
\* leaves the entry as it was stored; an entry changes only when a new
\* cache_set replaces it, and goes away only by eviction after its expiry.
C14_StoredEntriesNeverChange ==
  [][ \A m \in {"url", "img", "eml", "llm"} :
        \A k \in DOMAIN cache[m] :
          /\ (k \in DOMAIN cache'[m] /\ cache'[m][k] # cache[m][k]) => SetexStep
          /\ k \notin DOMAIN cache'[m] => cache[m][k].exp < now ]_vars

\* C15: in every interleaving of requests with the same fingerprint the cache
\* lock is held only inside TTLCache.get and TTLCache.setex and by no thread
\* that is in a fetch, an OCR call or a classifier call; each request does
\* the extraction and the classifier call at most once; and when all requests
\* have finished the cache holds an entry for the fingerprint.
C15_LockScopeAndPopulation ==
  /\ conc.lock # 0 =>
       conc.th[conc.lock].pc \in {"file_get", "file_setex", "llm_get_locked", "llm_setex"}
  /\ \A t \in Threads :
       /\ conc.th[t].pc \in {"extracting", "calling"} => conc.lock # t
       /\ conc.th[t].extracts <= 1
       /\ conc.th[t].calls <= 1
  /\ (\A t \in Threads : conc.th[t].pc = "done")
       => KeyOf(conc.req) \in DOMAIN cache[MapOf(conc.req)]

====
